---- MODULE Spec2Model ----
(***************************************************************************)
(* Pattern detection engine of claude_code_archive/analyzer/patterns.py.   *)
(*                                                                         *)
(* Three specifications share the variables below:                         *)
(*   SpecMerge    merge_overlapping_sequences, one outer-loop iteration    *)
(*                per step, over bounded input mappings;                   *)
(*   SpecExtract  extract_tool_sequences applied to bounded call lists;    *)
(*   SpecDetect   the four detection pipelines of PatternDetector over a   *)
(*                bounded store.                                           *)
(*                                                                         *)
(* Encoding of Python values:                                              *)
(*   timestamps   ISO-8601 strings compare lexicographically; they are     *)
(*                modelled by their rank: 0 is the empty string "" and     *)
(*                1, 2, ... are non-empty strings in ascending order.      *)
(*                None is the value None (JSON/SQL null), and Absent is a  *)
(*                dict key that is missing.                                *)
(*   tuples       TLA+ sequences of token strings.                         *)
(*   dict         a sequence of entries in insertion order, keys distinct. *)
(***************************************************************************)
EXTENDS Integers, Sequences, FiniteSets, TLC

VARIABLES
    mode,         \* which entry point this behaviour runs: "merge" | "extract" |
                  \* "detect" (one detect method of a new detector) | "calls" (a
                  \* caller of one detector's methods, or detect_patterns) |
                  \* "normalize" (one call of a normalizer)
    pc,           \* position of the running call
    \* ---- merge_overlapping_sequences
    sequences,    \* the input dict: <<[seq |-> tuple, pat |-> RawPattern]>> in insertion order
    given,        \* history: the input dict as it was when the call was made
    ratio,        \* min_overlap_ratio as <<numerator, denominator>>
    sorted_seqs,  \* indices into sequences, in the order of sorted(..., reverse=True)
    idx,          \* position of the outer for loop in sorted_seqs
    used,         \* the set of consumed tuples
    merged,       \* the output list of RawPattern
    origin,       \* per output pattern, the input indices it was built from; a
                  \* one-element origin <<i>> means merged[j] IS the object sequences[i].pat
    \* ---- extract_tool_sequences
    tool_calls,   \* the argument tool_calls: a list of tool call dicts
    n_arg,        \* the argument n
    windows,      \* the returned list of n-gram tuples
    \* ---- PatternDetector
    store,        \* the sessions as the database returns them, each with its
                  \* tool calls and messages
    config,       \* min_occurrences, min_sessions, project_filter, since
    pipeline,     \* the detect method that was called
    acc,          \* the accumulated dict before the threshold filter, in insertion order
    result,       \* the returned list of RawPattern; under "calls" the dict that
                  \* holds, per detect method, what its latest call returned
    report,       \* the dict returned by detect_patterns
    \* ---- the normalizers
    arg,          \* the normalizer called and its argument
    ret,          \* the string it returned
    \* ---- every call
    exc           \* the exception that escaped the call, "none" when it returned

mergeVars == <<sequences, given, ratio, sorted_seqs, idx, used, merged, origin>>

extractVars == <<tool_calls, n_arg, windows>>

detectVars == <<store, config, pipeline, acc, result, report>>

normalizeVars == <<arg, ret>>

vars == <<mode, pc, mergeVars, extractVars, detectVars, normalizeVars, exc>>

\* ------------------------------------------------------------------ values

\* extract_tool_sequences' default n: the length of every tuple that
\* detect_tool_sequences hands to the merger.
NGram == 3

\* The variables of a call that is not running.
MergeIdle ==
    /\ sequences = <<>>
    /\ given = <<>>
    /\ sorted_seqs = <<>>
    /\ idx = 0
    /\ used = {}
    /\ merged = <<>>
    /\ origin = <<>>

ExtractIdle ==
    /\ tool_calls = <<>>
    /\ n_arg = NGram
    /\ windows = <<>>

NormalizeIdle ==
    /\ arg = <<>>
    /\ ret = ""

None == -1

\* dict.get(key) of a key the dict does not hold
Absent == -2

Min2(a, b) == IF a <= b THEN a ELSE b

Max2(a, b) == IF a >= b THEN a ELSE b

\* bool(x) of an Optional[str]: None and "" are falsy.
Truthy(ts) == ts > 0

Range(s) == {s[i] : i \in 1..Len(s)}

DetectIdle ==
    /\ store = <<>>
    /\ config = <<>>
    /\ pipeline = ""
    /\ acc = <<>>
    /\ result = <<>>
    /\ report = <<>>

\* ------------------------------------------------------------------ RawPattern

RawPattern(type, key, occ, sess, proj, fs, ls, ex) ==
    [pattern_type |-> type, pattern_key |-> key, occurrences |-> occ,
     sessions |-> sess, projects |-> proj,
     first_seen |-> fs, last_seen |-> ls, examples |-> ex]

\* " → ".join(seq)
RECURSIVE JoinArrow(_)
JoinArrow(seq) ==
    IF Len(seq) = 0 THEN ""
    ELSE IF Len(seq) = 1 THEN seq[1]
    ELSE seq[1] \o " → " \o JoinArrow(Tail(seq))

\* ------------------------------------------------------------------ merge

\* seq[-k:] for 1 <= k
SuffixOf(seq, k) ==
    IF k >= Len(seq) THEN seq ELSE SubSeq(seq, Len(seq) - k + 1, Len(seq))

\* seq[:k]
PrefixOf(seq, k) == SubSeq(seq, 1, Min2(k, Len(seq)))

\* seq[k:]
DropFirst(seq, k) == SubSeq(seq, k + 1, Len(seq))

\* line 205: seq[-overlap_len:] == other_seq[:overlap_len]
OverlapAt(seq, other, k) == SuffixOf(seq, k) = PrefixOf(other, k)

\* Mutant of RatioOk: the threshold itself is refused.
RatioOkStrict(a, b, r) == Min2(a, b) * r[2] > r[1] * Max2(a, b)

\* lines 207-209: min_count / max_count >= min_overlap_ratio, on exact rationals
RatioOk(a, b, r) == Min2(a, b) * r[2] >= r[1] * Max2(a, b)

\* Mutant of InsertSorted: the lowest count comes first.
RECURSIVE InsertSortedAscending(_, _, _)
InsertSortedAscending(seqs, lst, i) ==
    IF lst = <<>> THEN <<i>>
    ELSE IF seqs[lst[1]].pat.occurrences <= seqs[i].pat.occurrences
         THEN <<lst[1]>> \o InsertSortedAscending(seqs, Tail(lst), i)
         ELSE <<i>> \o lst

\* lines 181-185: sorted(sequences.items(), key=occurrences, reverse=True).
\* Python's sort is stable, also with reverse=True: equal counts keep the
\* dict's insertion order.  Insertion of index i into an already sorted list.
RECURSIVE InsertSorted(_, _, _)
InsertSorted(seqs, lst, i) ==
    IF lst = <<>> THEN <<i>>
    ELSE IF seqs[lst[1]].pat.occurrences >= seqs[i].pat.occurrences
         THEN <<lst[1]>> \o InsertSorted(seqs, Tail(lst), i)
         ELSE <<i>> \o lst

RECURSIVE SortFrom(_, _, _)
SortFrom(seqs, lst, i) ==
    IF i > Len(seqs) THEN lst
    ELSE SortFrom(seqs, InsertSorted(seqs, lst, i), i + 1)

\* Mutant of SortedSeqs: the dict's insertion order is kept.
SortedSeqsUnsorted(seqs) == [i \in 1..Len(seqs) |-> i]

SortedSeqs(seqs) == SortFrom(seqs, <<>>, 1)

\* Mutant of FirstOverlap: the longest overlap is taken.
LongestOverlap(seqs, i, j, r) ==
    LET seq == seqs[i].seq
        other == seqs[j].seq
        ok == {k \in 1..(Len(seq) - 1) :
                  /\ OverlapAt(seq, other, k)
                  /\ RatioOk(seqs[i].pat.occurrences, seqs[j].pat.occurrences, r)}
    IN  IF ok = {} THEN 0 ELSE CHOOSE k \in ok : \A m \in ok : k >= m

\* lines 204-213: the first overlap_len in 1..len(seq)-1 at which seq's suffix
\* is other's prefix and the counts pass the ratio test; 0 when there is none.
FirstOverlap(seqs, i, j, r) ==
    LET seq == seqs[i].seq
        other == seqs[j].seq
        ok == {k \in 1..(Len(seq) - 1) :
                  /\ OverlapAt(seq, other, k)
                  /\ RatioOk(seqs[i].pat.occurrences, seqs[j].pat.occurrences, r)}
    IN  IF ok = {} THEN 0 ELSE CHOOSE k \in ok : \A m \in ok : k <= m

\* lines 198-216: the scan for a partner of sorted_seqs[p], in sorted order;
\* the result is <<partner index, overlap_len>>, or <<0, 0>> when none is found.
RECURSIVE ScanPartner(_, _, _, _, _, _)
ScanPartner(seqs, srt, usd, i, q, r) ==
    IF q > Len(srt) THEN <<0, 0>>
    ELSE LET j == srt[q]
         IN  IF seqs[j].seq = seqs[i].seq \/ seqs[j].seq \in usd
             THEN ScanPartner(seqs, srt, usd, i, q + 1, r)
             ELSE IF FirstOverlap(seqs, i, j, r) > 0
                  THEN <<j, FirstOverlap(seqs, i, j, r)>>
                  ELSE ScanPartner(seqs, srt, usd, i, q + 1, r)

\* Mutant of FindMerge: the last acceptable candidate of the scan is taken.
FindMergeLast(seqs, srt, usd, i, r) ==
    LET ok == {q \in 1..Len(srt) :
                  /\ seqs[srt[q]].seq # seqs[i].seq
                  /\ seqs[srt[q]].seq \notin usd
                  /\ FirstOverlap(seqs, i, srt[q], r) > 0}
    IN  IF ok = {} THEN <<0, 0>>
        ELSE LET q == CHOOSE x \in ok : \A y \in ok : x >= y
             IN  <<srt[q], FirstOverlap(seqs, i, srt[q], r)>>

FindMerge(seqs, srt, usd, i, r) == ScanPartner(seqs, srt, usd, i, 1, r)

\* Mutant of MergedFirstSeen: None is not filtered out before min().
MergedFirstSeenUnfiltered(a, b) == Min2(a, b)

\* line 227: min(filter(None, [a, b])) if a or b else None
MergedFirstSeen(a, b) ==
    IF Truthy(a) /\ Truthy(b) THEN Min2(a, b)
    ELSE IF Truthy(a) THEN a
    ELSE IF Truthy(b) THEN b
    ELSE None

\* line 228: max(filter(None, [a, b])) if a or b else None
MergedLastSeen(a, b) ==
    IF Truthy(a) /\ Truthy(b) THEN Max2(a, b)
    ELSE IF Truthy(a) THEN a
    ELSE IF Truthy(b) THEN b
    ELSE None

\* Mutant of MergedSeq: one token more of other_seq is cut.
MergedSeqOverCut(seq, other, k) == seq \o DropFirst(other, k + 1)

\* line 210: merged_seq = seq + other_seq[overlap_len:]
MergedSeq(seq, other, k) == seq \o DropFirst(other, k)

\* lines 221-230
MergedPattern(seq, other, k, p, o) ==
    RawPattern("tool_sequence",
               JoinArrow(MergedSeq(seq, other, k)),
               Min2(p.occurrences, o.occurrences),
               p.sessions \cup o.sessions,
               p.projects \cup o.projects,
               MergedFirstSeen(p.first_seen, o.first_seen),
               MergedLastSeen(p.last_seen, o.last_seen),
               p.examples \o o.examples)

\* Mutant of UsedAfterFuse: the partner is not consumed.
UsedAfterFuseLeftOnly(usd, seq, other) == usd \cup {seq}

\* lines 232-233: used.add(seq); used.add(best_merge)
UsedAfterFuse(usd, seq, other) == usd \cup {seq, other}

\* Mutant of KeptPattern: the kept pattern loses its examples.
KeptPatternWithoutExamples(seq, p) ==
    [p EXCEPT !.pattern_key = JoinArrow(seq), !.examples = <<>>]

\* Mutant of KeptPattern: the key is left as the detector set it.
KeptPatternKeyUntouched(seq, p) == p

\* lines 236-237: pattern.pattern_key = " → ".join(seq), on the input object itself
KeptPattern(seq, p) == [p EXCEPT !.pattern_key = JoinArrow(seq)]

\* Mutant of FreshLocal: the name is bound once and shared by the calls.
SharedLocal(left, initial) == left

\* A local of a call (lines 187-188, 275, 318, 365, 415): every call binds
\* it anew to its initial value, whatever another call left under the name.
FreshLocal(left, initial) == initial

\* lines 189-238: the loop from position k of sorted_seqs on.
RECURSIVE MergeLoop(_, _, _, _, _, _)
MergeLoop(seqs, srt, k, usd, out, r) ==
    IF k > Len(srt) THEN out
    ELSE LET i == srt[k]
             found == FindMerge(seqs, srt, usd, i, r)
             j == found[1]
         IN  IF seqs[i].seq \in usd
             THEN MergeLoop(seqs, srt, k + 1, usd, out, r)
             ELSE IF j # 0
                  THEN MergeLoop(seqs, srt, k + 1,
                                 UsedAfterFuse(usd, seqs[i].seq, seqs[j].seq),
                                 Append(out, MergedPattern(seqs[i].seq, seqs[j].seq, found[2],
                                                           seqs[i].pat, seqs[j].pat)),
                                 r)
                  ELSE MergeLoop(seqs, srt, k + 1, usd \cup {seqs[i].seq},
                                 Append(out, KeptPattern(seqs[i].seq, seqs[i].pat)), r)

\* lines 167-240: the list a whole call returns.
merge_overlapping_sequences(seqs, r) ==
    IF seqs = <<>> THEN <<>> ELSE MergeLoop(seqs, SortedSeqs(seqs), 1, {}, <<>>, r)

\* ------------------------------------------------------------------ merge: inputs

\* Bound: the number of entries of the input mapping.
MaxSeqs == 3

Tokens == {"A", "B"}

RECURSIVE TuplesOfLen(_)
TuplesOfLen(n) ==
    IF n = 0 THEN {<<>>}
    ELSE {<<t>> \o s : t \in Tokens, s \in TuplesOfLen(n - 1)}

Tuples == TuplesOfLen(NGram)

\* Occurrence counts of the input patterns: the counts of the repository's
\* tests (10, 5 and 2), which give a ratio equal to, and ratios below, 0.5.
OccSet == {2, 5, 10}

\* min_overlap_ratio: the default 0.5 (the only value the repository passes).
RatioSet == {<<1, 2>>}

\* The provenance fields of an input pattern.  None of them steers the merge,
\* so they are fixed per tuple: the tuples then differ in their sessions, in
\* their projects, and in whether and when they were seen.
SessionsOf(t) ==
    {IF t[1] = "A" THEN "s1" ELSE "s2", IF t[Len(t)] = "A" THEN "s2" ELSE "s3"}

ProjectsOf(t) == {IF t[2] = "A" THEN "p1" ELSE "p2"}

FirstSeenOf(t) ==
    IF t[1] = "A" /\ t[2] = "A" THEN None ELSE IF t[1] = "A" THEN 1 ELSE 2

LastSeenOf(t) ==
    IF FirstSeenOf(t) = None THEN None
    ELSE FirstSeenOf(t) + (IF t[Len(t)] = "B" THEN 1 ELSE 0)

\* detect_tool_sequences stores " → ".join(seq) for each of the first three
\* occurrences (lines 302-303).
ExamplesOf(t, occ) == [i \in 1..Min2(3, occ) |-> JoinArrow(t)]

\* An entry as detect_tool_sequences leaves it: pattern_key is still "".
InputPattern(t, occ) ==
    RawPattern("tool_sequence", "", occ, SessionsOf(t), ProjectsOf(t),
               FirstSeenOf(t), LastSeenOf(t), ExamplesOf(t, occ))

Keys(seqs) == {seqs[i].seq : i \in 1..Len(seqs)}

\* ------------------------------------------------------------------ merge: steps

InitMerge ==
    /\ mode = "merge"
    /\ pc = "build"
    /\ MergeIdle
    /\ ratio \in RatioSet
    /\ ExtractIdle
    /\ DetectIdle
    /\ NormalizeIdle
    /\ exc = "none"

\* Where a return of merge_overlapping_sequences leads: to the end of the
\* behaviour, or back into detect_tool_sequences (line 313).
Returning == IF mode \in {"detect", "calls"} THEN "return" ELSE "done"

\* The caller builds the input dict, one insertion at a time (keys distinct).
AddSequence ==
    /\ mode = "merge"
    /\ pc = "build"
    /\ Len(sequences) < MaxSeqs
    /\ \E t \in Tuples \ Keys(sequences), occ \in OccSet :
           sequences' = Append(sequences, [seq |-> t, pat |-> InputPattern(t, occ)])
    /\ UNCHANGED <<mode, pc, given, ratio, sorted_seqs, idx, used, merged, origin, extractVars, normalizeVars, detectVars, exc>>

\* lines 177-188: the empty dict returns [] at once; otherwise sort and start
\* the outer loop.
MergeStart ==
    /\ \/ mode = "merge" /\ pc = "build"
       \/ mode \in {"detect", "calls"} /\ pc = "merge"
    /\ IF sequences = <<>>
       THEN /\ pc' = Returning
            /\ sorted_seqs' = <<>>
            /\ idx' = 0
       ELSE /\ pc' = "loop"
            /\ sorted_seqs' = SortedSeqs(sequences)
            /\ idx' = 1
    /\ merged' = FreshLocal(merged, <<>>)
    /\ used' = FreshLocal(used, {})
    /\ origin' = <<>>
    /\ given' = sequences
    /\ UNCHANGED <<mode, sequences, ratio, extractVars, normalizeVars, detectVars, exc>>

\* lines 190-192: a consumed sequence is skipped.
MergeSkip ==
    /\ mode \in {"merge", "detect", "calls"}
    /\ pc = "loop"
    /\ idx <= Len(sorted_seqs)
    /\ sequences[sorted_seqs[idx]].seq \in used
    /\ idx' = idx + 1
    /\ UNCHANGED <<mode, pc, sequences, given, ratio, sorted_seqs, used, merged, origin, extractVars, normalizeVars, detectVars, exc>>

\* lines 194-233: a partner is found; the fused pattern is appended and both
\* sequences are consumed.
MergeFuse ==
    /\ mode \in {"merge", "detect", "calls"}
    /\ pc = "loop"
    /\ idx <= Len(sorted_seqs)
    /\ LET i == sorted_seqs[idx]
           found == FindMerge(sequences, sorted_seqs, used, i, ratio)
           j == found[1]
       IN  /\ sequences[i].seq \notin used
           /\ j # 0
           /\ merged' = Append(merged,
                               MergedPattern(sequences[i].seq, sequences[j].seq, found[2],
                                             sequences[i].pat, sequences[j].pat))
           /\ origin' = Append(origin, <<i, j>>)
           /\ used' = UsedAfterFuse(used, sequences[i].seq, sequences[j].seq)
    /\ idx' = idx + 1
    /\ UNCHANGED <<mode, pc, sequences, given, ratio, sorted_seqs, extractVars, normalizeVars, detectVars, exc>>

\* lines 194-216, 234-238: no partner; the input pattern itself gets its key
\* rewritten and is appended.
MergeKeep ==
    /\ mode \in {"merge", "detect", "calls"}
    /\ pc = "loop"
    /\ idx <= Len(sorted_seqs)
    /\ LET i == sorted_seqs[idx]
           found == FindMerge(sequences, sorted_seqs, used, i, ratio)
       IN  /\ sequences[i].seq \notin used
           /\ found[1] = 0
           /\ sequences' = [sequences EXCEPT
                               ![i].pat = KeptPattern(sequences[i].seq, sequences[i].pat)]
           /\ merged' = Append(merged, KeptPattern(sequences[i].seq, sequences[i].pat))
           /\ origin' = Append(origin, <<i>>)
           /\ used' = used \cup {sequences[i].seq}
    /\ idx' = idx + 1
    /\ UNCHANGED <<mode, pc, given, ratio, sorted_seqs, extractVars, normalizeVars, detectVars, exc>>

\* line 240: return merged
MergeReturn ==
    /\ mode \in {"merge", "detect", "calls"}
    /\ pc = "loop"
    /\ idx > Len(sorted_seqs)
    /\ pc' = Returning
    /\ UNCHANGED <<mode, sequences, given, ratio, sorted_seqs, idx, used, merged, origin, extractVars, normalizeVars, detectVars, exc>>

\* The steps of the call itself.
MergeCall == MergeStart \/ MergeSkip \/ MergeFuse \/ MergeKeep \/ MergeReturn

NextMerge == AddSequence \/ MergeCall

SpecMerge == InitMerge /\ [][NextMerge]_vars

\* ------------------------------------------------------------------ normalizers

\* line 14: SUBCOMMAND_TOOLS
SUBCOMMAND_TOOLS ==
    {"git", "docker", "kubectl", "npm", "yarn", "pip", "cargo",
     "go", "gh", "aws", "gcloud", "az", "terraform", "make",
     "poetry", "uv", "pnpm", "bun", "deno", "rustup", "conda"}

\* Mutant of StartsWith: nothing starts with anything.
StartsWithNever(str, prefix) == FALSE

\* str.startswith
StartsWith(str, prefix) ==
    Len(str) >= Len(prefix) /\ SubSeq(str, 1, Len(prefix)) = prefix

\* str.split(): the maximal runs of non-blank characters.  cur is the run
\* being read.
RECURSIVE SplitFrom(_, _)
SplitFrom(str, cur) ==
    IF Len(str) = 0 THEN (IF cur = "" THEN <<>> ELSE <<cur>>)
    ELSE IF Head(str) = " "
         THEN (IF cur = "" THEN <<>> ELSE <<cur>>) \o SplitFrom(Tail(str), "")
         ELSE SplitFrom(Tail(str), cur \o Head(str))

Split(str) == SplitFrom(str, "")

\* A JSON text as json.loads sees it.  kind is
\*   "absent"     the dict has no input_json key,
\*   "null"       the value is None,
\*   "invalid"    a string that is not JSON,
\*   "nonobject"  JSON for a list, number, string or null,
\*   "object"     JSON for an object; command and file_path are its fields.
\* A field's kind is "absent", "falsy" (null, 0, false, "", []), "nonstring"
\* (any other value that is not a string) or "str" with its text.
Field(kind, text) == [kind |-> kind, text |-> text]

NoField == Field("absent", "")

Json(kind, command, file_path) ==
    [kind |-> kind, command |-> command, file_path |-> file_path]

NoJson == Json("absent", NoField, NoField)

\* The quote that is open at the end of str when q is open at its start; ""
\* when none is.  The commands of the model hold no backslash.
RECURSIVE QuoteAtEnd(_, _)
QuoteAtEnd(str, q) ==
    IF Len(str) = 0 THEN q
    ELSE IF q # "" THEN QuoteAtEnd(Tail(str), IF Head(str) = q THEN "" ELSE q)
    ELSE QuoteAtEnd(Tail(str), IF Head(str) \in {"\"", "'"} THEN Head(str) ELSE "")

\* line 65: shlex.split raises ValueError ("No closing quotation").
ShlexRaises(cmd) == QuoteAtEnd(cmd, "") # ""

\* line 65: shlex.split(cmd) for balanced quotes: blanks split outside
\* quotes, the quotes themselves are dropped, and an empty pair of quotes
\* makes a word.  cur is the word being read, started whether there is one.
RECURSIVE ShlexFrom(_, _, _, _)
ShlexFrom(str, cur, started, q) ==
    IF Len(str) = 0 THEN (IF started THEN <<cur>> ELSE <<>>)
    ELSE IF q # ""
         THEN IF Head(str) = q THEN ShlexFrom(Tail(str), cur, TRUE, "")
              ELSE ShlexFrom(Tail(str), cur \o Head(str), TRUE, q)
    ELSE IF Head(str) \in {"\"", "'"} THEN ShlexFrom(Tail(str), cur, TRUE, Head(str))
    ELSE IF Head(str) = " "
         THEN (IF started THEN <<cur>> ELSE <<>>) \o ShlexFrom(Tail(str), "", FALSE, "")
    ELSE ShlexFrom(Tail(str), cur \o Head(str), TRUE, "")

\* Mutant of Parts: the command is not split.
PartsUnsplit(cmd) == <<cmd>>

\* lines 64-67: shlex.split(cmd), and cmd.split() when it raises ValueError
Parts(cmd) == IF ShlexRaises(cmd) THEN Split(cmd) ELSE ShlexFrom(cmd, "", FALSE, "")

\* Mutant of BashCommandRaises: the ValueError of shlex.split is not caught.
BashCommandRaisesOnQuotes(input_json) ==
    \/ input_json.kind = "null"
    \/ input_json.kind = "nonobject"
    \/ input_json.kind = "object" /\ input_json.command.kind = "nonstring"
    \/ /\ input_json.kind = "object" /\ input_json.command.kind = "str"
       /\ ShlexRaises(input_json.command.text)

\* lines 54-59, 65: json.loads raises TypeError on None; data.get raises
\* AttributeError on a value that is not a dict; shlex.split raises
\* AttributeError on a truthy value that is not a string.
BashCommandRaises(input_json) ==
    \/ input_json.kind = "null"
    \/ input_json.kind = "nonobject"
    \/ input_json.kind = "object" /\ input_json.command.kind = "nonstring"

\* The exception that json.loads (TypeError) or data.get / shlex.split
\* (AttributeError) raises.
BashCommandException(input_json) ==
    IF input_json.kind = "null" THEN "TypeError" ELSE "AttributeError"

\* lines 49-81, for an input on which it returns
normalize_bash_command(input_json) ==
    IF input_json.kind # "object" \/ input_json.command.kind # "str" THEN "unknown"
    ELSE LET parts == Parts(input_json.command.text)
         IN  IF parts = <<>> THEN "unknown"
             ELSE IF /\ parts[1] \in SUBCOMMAND_TOOLS
                     /\ Len(parts) > 1
                     /\ ~StartsWith(parts[2], "-")
                     /\ ~StartsWith(parts[2], "/")
                  THEN parts[1] \o "-" \o parts[2]
                  ELSE parts[1]

ToolCall(name, input_json, timestamp) ==
    [tool_name |-> name, input_json |-> input_json, timestamp |-> timestamp]

\* line 89: tool_call.get("input_json", "{}")
InputJsonOf(tc) ==
    IF tc.input_json.kind = "absent" THEN Json("object", NoField, NoField)
    ELSE tc.input_json

NormalizeToolNameRaises(tc) ==
    tc.tool_name = "Bash" /\ BashCommandRaises(InputJsonOf(tc))

\* lines 84-92
normalize_tool_name(tc) ==
    IF tc.tool_name = "Bash"
    THEN "Bash:" \o normalize_bash_command(InputJsonOf(tc))
    ELSE tc.tool_name

\* The index of the first occurrence of the character c in str, 0 when there
\* is none.
RECURSIVE IndexOf(_, _)
IndexOf(str, c) ==
    IF str = "" THEN 0
    ELSE IF Head(str) = c THEN 1
    ELSE LET k == IndexOf(Tail(str), c) IN IF k = 0 THEN 0 ELSE k + 1

\* Mutant of SubHome: the user's name is left in the path.
SubHomeKeepUser(path, prefix, sep) ==
    IF ~StartsWith(path, prefix) THEN path
    ELSE "~/" \o SubSeq(path, Len(prefix) + 1, Len(path))

\* line 163: re.sub of '^' prefix '[^sep]+' sep by '~/'
SubHome(path, prefix, sep) ==
    IF ~StartsWith(path, prefix) THEN path
    ELSE LET rest == SubSeq(path, Len(prefix) + 1, Len(path))
             k == IndexOf(rest, sep)
         IN  IF k >= 2 THEN "~/" \o SubSeq(rest, k + 1, Len(rest)) ELSE path

\* lines 152-164: the four substitutions, one after the other
normalize_file_path(file_path) ==
    SubHome(SubHome(SubHome(SubHome(file_path,
        "/Users/", "/"), "/home/", "/"), "/mnt/c/Users/", "/"), "C:\\Users\\", "\\")

UPPER == "ABCDEFGHIJKLMNOPQRSTUVWXYZ"

LOWER == "abcdefghijklmnopqrstuvwxyz"

DIGITS == "0123456789"

CharsOf(str) == {SubSeq(str, i, i) : i \in 1..Len(str)}

\* line 123: str.lower()
LowerChar(c) ==
    IF c \in CharsOf(UPPER)
    THEN LET i == CHOOSE j \in 1..Len(UPPER) : SubSeq(UPPER, j, j) = c
         IN  SubSeq(LOWER, i, i)
    ELSE c

RECURSIVE Lower(_)
Lower(str) == IF str = "" THEN "" ELSE LowerChar(Head(str)) \o Lower(Tail(str))

\* [\w\-./] of lines 127 and 129, on lower-cased text
PathChars == CharsOf(LOWER) \cup CharsOf(DIGITS) \cup {"_", "-", ".", "/"}

\* The length of the longest prefix of str whose characters satisfy: in
\* chars when inside is TRUE, not in chars when inside is FALSE.
RECURSIVE RunLen(_, _, _)
RunLen(str, chars, inside) ==
    IF str = "" \/ (Head(str) \in chars) # inside THEN 0
    ELSE 1 + RunLen(Tail(str), chars, inside)

Drop(str, k) == SubSeq(str, k + 1, Len(str))

\* line 125: re.sub(r'https?://\S+', '<url>', text)
RECURSIVE SubUrl(_)
SubUrl(text) ==
    IF text = "" THEN ""
    ELSE LET p == IF StartsWith(text, "https://") THEN 8
                  ELSE IF StartsWith(text, "http://") THEN 7 ELSE 0
             run == RunLen(Drop(text, p), {" "}, FALSE)
         IN  IF p > 0 /\ run > 0
             THEN "<url>" \o SubUrl(Drop(text, p + run))
             ELSE Head(text) \o SubUrl(Tail(text))

\* line 127: re.sub(r'(/[\w\-./]+)+', '<path>', text)
RECURSIVE SubPath(_)
SubPath(text) ==
    IF text = "" THEN ""
    ELSE LET run == RunLen(Tail(text), PathChars, TRUE)
         IN  IF Head(text) = "/" /\ run > 0
             THEN "<path>" \o SubPath(Drop(text, 1 + run))
             ELSE Head(text) \o SubPath(Tail(text))

Quotes == {"\"", "'"}

\* line 129: re.sub(r'["\'][\w\-./]+["\']', '<name>', text)
RECURSIVE SubName(_)
SubName(text) ==
    IF text = "" THEN ""
    ELSE LET run == RunLen(Tail(text), PathChars, TRUE)
         IN  IF /\ Head(text) \in Quotes
                /\ run > 0
                /\ Len(text) >= run + 2
                /\ SubSeq(text, run + 2, run + 2) \in Quotes
             THEN "<name>" \o SubName(Drop(text, run + 2))
             ELSE Head(text) \o SubName(Tail(text))

\* ' '.join(words)
RECURSIVE JoinBlank(_)
JoinBlank(words) ==
    IF words = <<>> THEN ""
    ELSE IF Len(words) = 1 THEN words[1]
    ELSE words[1] \o " " \o JoinBlank(Tail(words))

\* lines 121-132
normalize_prompt(text) == JoinBlank(Split(SubName(SubPath(SubUrl(Lower(text))))))

\* prefix n_tokens and phrase n of lines 135 and 143
PrefixTokens == 5

PhraseNGram == 5

\* lines 135-138
extract_prompt_prefix(text) ==
    LET tokens == Split(normalize_prompt(text))
    IN  JoinBlank(SubSeq(tokens, 1, Min2(PrefixTokens, Len(tokens))))

\* lines 141-149
extract_phrase_ngrams(text) ==
    LET words == Split(normalize_prompt(text))
    IN  IF Len(words) < PhraseNGram THEN <<>>
        ELSE [i \in 1..(Len(words) - PhraseNGram + 1) |->
                 SubSeq(words, i, i + PhraseNGram - 1)]

\* ------------------------------------------------------------------ extract_tool_sequences

\* line 112: key=lambda x: x.get("timestamp", "")
SortKey(tc) == IF tc.timestamp = Absent THEN 0 ELSE tc.timestamp

\* line 112: sorted() compares the keys as soon as there are two of them, and
\* None compares with nothing: TypeError.
SortRaises(calls) ==
    Len(calls) >= 2 /\ \E i \in 1..Len(calls) : SortKey(calls[i]) = None

\* Insertion of a call behind every call whose key is not greater: stable.
RECURSIVE InsertByKey(_, _)
InsertByKey(lst, tc) ==
    IF lst = <<>> THEN <<tc>>
    ELSE IF SortKey(lst[1]) <= SortKey(tc)
         THEN <<lst[1]>> \o InsertByKey(Tail(lst), tc)
         ELSE <<tc>> \o lst

RECURSIVE SortCallsFrom(_, _, _)
SortCallsFrom(calls, lst, i) ==
    IF i > Len(calls) THEN lst
    ELSE SortCallsFrom(calls, InsertByKey(lst, calls[i]), i + 1)

\* Mutant of SortedCalls: the calls are left in input order.
SortedCallsUnsorted(calls) == calls

\* line 112: sorted(tool_calls, key=...)
SortedCalls(calls) == SortCallsFrom(calls, <<>>, 1)

ExtractRaises(calls, n) ==
    /\ Len(calls) >= n
    /\ \/ SortRaises(calls)
       \/ \E i \in 1..Len(calls) : NormalizeToolNameRaises(calls[i])

\* The sort comes first (line 112), then the normalization of the sorted
\* calls in order (line 115).
ExtractException(calls) ==
    IF SortRaises(calls) THEN "TypeError"
    ELSE LET srt == SortedCalls(calls)
             bad == {i \in 1..Len(srt) : NormalizeToolNameRaises(srt[i])}
         IN  BashCommandException(InputJsonOf(srt[CHOOSE i \in bad : \A j \in bad : i <= j]))

\* lines 108-118, for an input on which it returns
extract_tool_sequences(calls, n) ==
    IF Len(calls) < n THEN <<>>
    ELSE LET tools == [i \in 1..Len(calls) |-> normalize_tool_name(SortedCalls(calls)[i])]
         IN  [i \in 1..(Len(tools) - n + 1) |-> SubSeq(tools, i, i + n - 1)]

\* Bounds: the number of calls handed to extract_tool_sequences, and its n.
MaxCalls == 3

MaxN == 3

\* Timestamps of the records: absent, None, and two ISO strings.
CallTimestamps == {Absent, None, 1, 2}

GitStatus == Json("object", Field("str", "git status"), NoField)

ExtractCalls ==
    {ToolCall(nm, NoJson, ts) : nm \in {"Read", "Edit"}, ts \in CallTimestamps}
    \cup {ToolCall("Bash", GitStatus, ts) : ts \in CallTimestamps}

\* The caller builds the list of calls.
AddCall ==
    /\ mode = "extract"
    /\ pc = "build"
    /\ Len(tool_calls) < MaxCalls
    /\ \E tc \in ExtractCalls : tool_calls' = Append(tool_calls, tc)
    /\ UNCHANGED <<mode, pc, mergeVars, n_arg, windows, detectVars, normalizeVars, exc>>

\* extract_tool_sequences(tool_calls, n)
Extract ==
    /\ mode = "extract"
    /\ pc = "build"
    /\ \E n \in 1..MaxN :
          /\ n_arg' = n
          /\ IF ExtractRaises(tool_calls, n)
             THEN exc' = ExtractException(tool_calls) /\ windows' = <<>>
             ELSE exc' = "none" /\ windows' = extract_tool_sequences(tool_calls, n)
    /\ pc' = "done"
    /\ UNCHANGED <<mode, mergeVars, tool_calls, detectVars, normalizeVars>>

InitExtract ==
    /\ mode = "extract"
    /\ pc = "build"
    /\ MergeIdle
    /\ ratio = <<1, 2>>
    /\ ExtractIdle
    /\ DetectIdle
    /\ NormalizeIdle
    /\ exc = "none"

NextExtract == AddCall \/ Extract

SpecExtract == InitExtract /\ [][NextExtract]_vars

\* ------------------------------------------------------------------ PatternDetector

\* A message row; content is a Field: "absent", "falsy" (None or "") or "str".
Message(type, content, timestamp) ==
    [type |-> type, content |-> content, timestamp |-> timestamp]

\* A session row together with the rows that get_tool_calls_for_session and
\* get_messages_for_session return for its id, in the order they return them.
Session(id, project, started_at, calls, messages) ==
    [id |-> id, project |-> project, started_at |-> started_at,
     tool_calls |-> calls, messages |-> messages]

\* lines 246-258; a project_filter of "" and a since of 0 stand for None as
\* well: lines 262 and 267 test truthiness.
Config(min_occurrences, min_sessions, project_filter, since) ==
    [min_occurrences |-> min_occurrences, min_sessions |-> min_sessions,
     project_filter |-> project_filter, since |-> since]

\* ------------------------------------------------------------------ PatternDetector: store

\* Bound: the number of sessions in the store.
MaxSessions == 2

Str(text) == Field("str", text)

CommandJson(command) == Json("object", Str(command), NoField)

FileJson(file_path) == Json("object", NoField, Str(file_path))

ConfigUsers == "/Users/test/project-a/src/config.py"

ConfigHome == "/home/dev/project-a/src/config.py"

\* The calls of session-1 of the fixture.
GitWorkflow ==
    <<ToolCall("Read", FileJson(ConfigUsers), 1),
      ToolCall("Bash", CommandJson("git status"), 2),
      ToolCall("Bash", CommandJson("git diff"), 3),
      ToolCall("Bash", CommandJson("git add ."), 4)>>

\* One file read again and again under two home prefixes, out of timestamp
\* order, and a relative path without a timestamp.
RepeatedReads ==
    <<ToolCall("Read", FileJson(ConfigUsers), 2),
      ToolCall("Read", FileJson(ConfigHome), 1),
      ToolCall("Read", FileJson(ConfigUsers), 3),
      ToolCall("Read", FileJson("src/main.py"), Absent)>>

\* Calls that detect_file_access passes over, and one Write.
Mixed ==
    <<ToolCall("Bash", Json("object", Str("git status"), Str(ConfigUsers)), 1),
      ToolCall("Write", Json("invalid", NoField, NoField), 2),
      ToolCall("Edit", Json("object", NoField, Field("falsy", "")), 3),
      ToolCall("Edit", NoJson, Absent),
      ToolCall("Write", FileJson(ConfigHome), 0)>>

\* A timestamp that is null.
NullTimestamp ==
    <<ToolCall("Read", FileJson(ConfigUsers), None),
      ToolCall("Bash", CommandJson("git status"), 1),
      ToolCall("Bash", CommandJson("git diff"), 2)>>

\* input_json that is JSON but no object, and fields that are no strings.
BadJson ==
    <<ToolCall("Read", Json("nonobject", NoField, NoField), 1),
      ToolCall("Bash", Json("object", Field("nonstring", ""), NoField), 2),
      ToolCall("Edit", Json("object", NoField, Field("nonstring", "")), 3)>>

\* The messages of session-1 and session-2 of the fixture.
Login ==
    <<Message("user", Str("help me fix the bug in the login function"), 1),
      Message("assistant", Str("I'll check the code and make the fix."), 2)>>

UserModel ==
    <<Message("user", Str("help me fix the bug in the user model"), 2)>>

\* Content that is short, empty, null or missing, and a prompt said twice in
\* other words.
Messy ==
    <<Message("user", Str("Help me fix  the bug in /src/app.py"), Absent),
      Message("user", Str("do it now"), 1),
      Message("user", Str("refactor everything"), 2),
      Message("user", Field("falsy", ""), 2),
      Message("user", NoField, None),
      Message("user", Str("help me fix the bug in the login function"), 3)>>

Docs ==
    <<Message("user", Str("see https://example.com/docs and 'config.py'"), 1),
      Message("user", Str("go go go go go go"), 0),
      Message("assistant", Str("go go go go go then"), 3)>>

\* The sessions a store is made of: project, started_at, calls, messages.
SessionTemplates ==
    {<<"project-a", 1, GitWorkflow, Login>>,
     <<"project-a", 2, GitWorkflow, UserModel>>,
     <<"project-b", 2, GitWorkflow, Login>>,
     <<"project-b", 1, RepeatedReads, Messy>>,
     <<"project-a", Absent, RepeatedReads, UserModel>>,
     <<"project-b", None, Mixed, Docs>>,
     <<"project-a", 0, NullTimestamp, Messy>>,
     <<"project-b", 2, BadJson, Docs>>}

\* The configurations of a detector: the defaults, the thresholds of the
\* tests, thresholds of zero, a project filter and a since floor.
DetectConfigs ==
    {Config(3, 2, "", 0),
     Config(2, 2, "", 0),
     Config(0, 0, "", 0),
     Config(2, 1, "project-a", 0),
     Config(1, 1, "", 2),
     Config(1, 2, "project-b", 1)}

\* Every text, call list and path of a store is one of the templates'.
StoredTexts ==
    {m.content.text : m \in UNION {Range(t[4]) : t \in SessionTemplates}}

StoredCalls == {t[3] : t \in SessionTemplates}

StoredPaths ==
    {tc.input_json.file_path.text : tc \in UNION {Range(calls) : calls \in StoredCalls}}

\* The values of the extractors and normalizers on them.
PrefixOfText == [text \in StoredTexts |-> extract_prompt_prefix(text)]

PhrasesOfText == [text \in StoredTexts |-> extract_phrase_ngrams(text)]

WordsOfText == [text \in StoredTexts |-> Split(normalize_prompt(text))]

WindowsOfCalls == [calls \in StoredCalls |-> extract_tool_sequences(calls, NGram)]

NormalizedPath == [file_path \in StoredPaths |-> normalize_file_path(file_path)]

\* ------------------------------------------------------------------ PatternDetector: methods

\* db.get_all_sessions()
get_all_sessions(db) == db

\* db.get_sessions_by_project(project)
get_sessions_by_project(db, project) ==
    SelectSeq(db, LAMBDA s : s.project = project)

\* lines 262-265
SessionsOfProject(db, cfg) ==
    IF cfg.project_filter # ""
    THEN get_sessions_by_project(db, cfg.project_filter)
    ELSE get_all_sessions(db)

\* line 268: s.get("started_at", "")
StartedAt(s) == IF s.started_at = Absent THEN 0 ELSE s.started_at

\* line 268: None >= str raises TypeError
FilterRaises(db, cfg) ==
    /\ Truthy(cfg.since)
    /\ \E s \in Range(SessionsOfProject(db, cfg)) : StartedAt(s) = None

\* Mutant of FilteredSessions: the since floor is not applied.
FilteredSessionsUnfloored(db, cfg) == SessionsOfProject(db, cfg)

\* lines 260-270, for a store on which it returns
FilteredSessions(db, cfg) ==
    IF Truthy(cfg.since)
    THEN SelectSeq(SessionsOfProject(db, cfg), LAMBDA s : StartedAt(s) >= cfg.since)
    ELSE SessionsOfProject(db, cfg)

\* One pass of an inner loop body that reaches the counting statements: the
\* dict key, the pattern_key assigned, the session, the timestamp offered and
\* the example string.
Observation(key, pattern_key, session, timestamp, example) ==
    [key |-> key, pattern_key |-> pattern_key, sid |-> session.id,
     project |-> session.project, timestamp |-> timestamp, example |-> example]

\* The concatenation of the lists of a list.
RECURSIVE Flatten(_)
Flatten(lists) ==
    IF lists = <<>> THEN <<>> ELSE lists[1] \o Flatten(Tail(lists))

\* The concatenation of f(s[1]), f(s[2]), ...
FlatMap(s, f(_)) == Flatten([i \in 1..Len(s) |-> f(s[i])])

\* lines 284-303: the passes of one session.  detect_tool_sequences never
\* assigns pattern_key: it stays the default "".
SequenceObservations(session) ==
    LET seqs == WindowsOfCalls[session.tool_calls]
    IN  [i \in 1..Len(seqs) |->
            Observation(seqs[i], "", session, session.started_at, JoinArrow(seqs[i]))]

\* lines 354, 404: content[:100] + ("..." if len(content) > 100 else "")
Truncated(content) ==
    SubSeq(content, 1, Min2(100, Len(content)))
        \o (IF Len(content) > 100 THEN "..." ELSE "")

\* lines 328, 375
UserMessages(session) == SelectSeq(session.messages, LAMBDA m : m.type = "user")

\* Mutant of PrefixObservation: content of any length counts.
PrefixObservationAnyLength(session, msg) ==
    IF msg.content.kind # "str" THEN <<>>
    ELSE LET prefix == PrefixOfText[msg.content.text]
         IN  IF Len(Split(prefix)) < 3 THEN <<>>
             ELSE <<Observation(prefix, prefix, session, msg.timestamp,
                                Truncated(msg.content.text))>>

\* lines 331-354: the pass of one message, if any
PrefixObservation(session, msg) ==
    IF msg.content.kind # "str" \/ Len(msg.content.text) < 10 THEN <<>>
    ELSE LET prefix == PrefixOfText[msg.content.text]
         IN  IF Len(Split(prefix)) < 3 THEN <<>>
             ELSE <<Observation(prefix, prefix, session, msg.timestamp,
                                Truncated(msg.content.text))>>

PrefixObservations(session) ==
    FlatMap(UserMessages(session), LAMBDA m : PrefixObservation(session, m))

\* Mutant of FirstOccurrences: repetitions stay.
FirstOccurrencesAll(lst) == lst

\* lines 383-388: the phrases of a message without their repetitions
RECURSIVE FirstOccurrences(_)
FirstOccurrences(lst) ==
    IF lst = <<>> THEN <<>>
    ELSE LET front == FirstOccurrences(SubSeq(lst, 1, Len(lst) - 1))
             last == lst[Len(lst)]
         IN  IF last \in Range(front) THEN front ELSE Append(front, last)

\* lines 378-404: the passes of one message
PhraseObservationsOf(session, msg) ==
    IF msg.content.kind # "str" THEN <<>>
    ELSE LET phrases == FirstOccurrences(PhrasesOfText[msg.content.text])
         IN  [i \in 1..Len(phrases) |->
                 Observation(phrases[i], JoinBlank(phrases[i]), session,
                             msg.timestamp, Truncated(msg.content.text))]

PhraseObservations(session) ==
    FlatMap(UserMessages(session), LAMBDA m : PhraseObservationsOf(session, m))

FileTools == {"Read", "Edit", "Write"}

\* lines 428-441: json.loads(None) and re.sub on a non-string raise
\* TypeError, .get on a value that is not a dict raises AttributeError.
FileCallRaises(tc) ==
    /\ tc.tool_name \in FileTools
    /\ \/ tc.input_json.kind \in {"null", "nonobject"}
       \/ tc.input_json.kind = "object" /\ tc.input_json.file_path.kind = "nonstring"

FileCallException(tc) ==
    IF tc.input_json.kind = "nonobject" THEN "AttributeError" ELSE "TypeError"

\* lines 428-439: the call is one of a file tool with a non-empty file_path
HasFilePath(tc) ==
    /\ tc.tool_name \in FileTools
    /\ tc.input_json.kind = "object"
    /\ tc.input_json.file_path.kind = "str"
    /\ tc.input_json.file_path.text # ""

\* Mutant of SeenFile: no path counts as seen.
SeenFileNever(seen_files, normalized) == FALSE

\* line 444: normalized in seen_files
SeenFile(seen_files, normalized) == normalized \in seen_files

\* lines 427-462: the passes over the calls of one session from call i on
RECURSIVE FileObservationsFrom(_, _, _)
FileObservationsFrom(session, i, seen_files) ==
    IF i > Len(session.tool_calls) THEN <<>>
    ELSE LET tc == session.tool_calls[i]
             file_path == tc.input_json.file_path.text
             normalized == NormalizedPath[file_path]
         IN  IF ~HasFilePath(tc) \/ SeenFile(seen_files, normalized)
             THEN FileObservationsFrom(session, i + 1, seen_files)
             ELSE <<Observation(normalized, normalized, session, tc.timestamp,
                                tc.tool_name \o ": " \o file_path)>>
                  \o FileObservationsFrom(session, i + 1, seen_files \cup {normalized})

FileObservations(session) == FileObservationsFrom(session, 1, {})

Pipelines == {"tool_sequence", "prompt_prefix", "prompt_phrase", "file_access"}

\* The passes of a whole detect method, in scan order.
Observations(pl, sessions) ==
    CASE pl = "tool_sequence" -> FlatMap(sessions, SequenceObservations)
      [] pl = "prompt_prefix" -> FlatMap(sessions, PrefixObservations)
      [] pl = "prompt_phrase" -> FlatMap(sessions, PhraseObservations)
      [] pl = "file_access"   -> FlatMap(sessions, FileObservations)

\* lines 275-281 and alike: the defaultdict's factory
NewPattern(pl) == RawPattern(pl, "", 0, {}, {}, None, None, <<>>)

\* Mutant of Counted: a session's first observation is not counted.
CountedRepeatsOnly(pattern, o) ==
    IF o.sid \in pattern.sessions THEN pattern.occurrences + 1 ELSE pattern.occurrences

\* Mutant of Counted: a session counts once.
CountedOncePerSession(pattern, o) ==
    IF o.sid \in pattern.sessions THEN pattern.occurrences ELSE pattern.occurrences + 1

\* lines 289, 341, 392, 450
Counted(pattern, o) == pattern.occurrences + 1

\* Mutant of Observed: the example is appended whatever the list holds.
ObservedUncapped(pattern, o) ==
    LET ts == o.timestamp
    IN  RawPattern(pattern.pattern_type, o.pattern_key, Counted(pattern, o),
                   pattern.sessions \cup {o.sid}, pattern.projects \cup {o.project},
                   IF Truthy(ts) /\ (~Truthy(pattern.first_seen) \/ ts < pattern.first_seen)
                   THEN ts ELSE pattern.first_seen,
                   IF Truthy(ts) /\ (~Truthy(pattern.last_seen) \/ ts > pattern.last_seen)
                   THEN ts ELSE pattern.last_seen,
                   Append(pattern.examples, o.example))

\* Mutant of Observed: a timestamp replaces first_seen without being compared.
ObservedUncompared(pattern, o) ==
    LET ts == o.timestamp
    IN  RawPattern(pattern.pattern_type, o.pattern_key, Counted(pattern, o),
                   pattern.sessions \cup {o.sid}, pattern.projects \cup {o.project},
                   IF Truthy(ts) THEN ts ELSE pattern.first_seen,
                   IF Truthy(ts) /\ (~Truthy(pattern.last_seen) \/ ts > pattern.last_seen)
                   THEN ts ELSE pattern.last_seen,
                   IF Len(pattern.examples) < 3
                   THEN Append(pattern.examples, o.example) ELSE pattern.examples)

\* lines 288-303 and alike: the counting statements on one pattern
Observed(pattern, o) ==
    LET ts == o.timestamp
    IN  RawPattern(pattern.pattern_type, o.pattern_key, Counted(pattern, o),
                   pattern.sessions \cup {o.sid}, pattern.projects \cup {o.project},
                   IF Truthy(ts) /\ (~Truthy(pattern.first_seen) \/ ts < pattern.first_seen)
                   THEN ts ELSE pattern.first_seen,
                   IF Truthy(ts) /\ (~Truthy(pattern.last_seen) \/ ts > pattern.last_seen)
                   THEN ts ELSE pattern.last_seen,
                   IF Len(pattern.examples) < 3
                   THEN Append(pattern.examples, o.example) ELSE pattern.examples)

\* Mutant of Observe: every pass makes an entry of its own.
ObserveAlwaysNew(pl, counts, o) ==
    Append(counts, [seq |-> o.key, pat |-> Observed(NewPattern(pl), o)])

\* The dict after one more pass: the entry of the key is created on first use.
Observe(pl, counts, o) ==
    IF o.key \in Keys(counts)
    THEN LET i == CHOOSE j \in 1..Len(counts) : counts[j].seq = o.key
         IN  [counts EXCEPT ![i].pat = Observed(counts[i].pat, o)]
    ELSE Append(counts, [seq |-> o.key, pat |-> Observed(NewPattern(pl), o)])

\* The dict counts after the further passes obs[1], ..., obs[Len(obs)].
RECURSIVE AccumulatedOnto(_, _, _)
AccumulatedOnto(counts, pl, obs) ==
    IF obs = <<>> THEN counts
    ELSE Observe(pl, AccumulatedOnto(counts, pl, SubSeq(obs, 1, Len(obs) - 1)), obs[Len(obs)])

\* The dict after the passes obs[1], ..., obs[Len(obs)].
RECURSIVE Accumulated(_, _)
Accumulated(pl, obs) ==
    IF obs = <<>> THEN <<>>
    ELSE Observe(pl, Accumulated(pl, SubSeq(obs, 1, Len(obs) - 1)), obs[Len(obs)])

\* Mutant of MeetsThresholds: the session threshold is not looked at.
MeetsOccurrencesOnly(p, cfg) == p.occurrences >= cfg.min_occurrences

\* lines 308-309, 358-359, 408-409, 466-467
MeetsThresholds(p, cfg) ==
    /\ p.occurrences >= cfg.min_occurrences
    /\ Cardinality(p.sessions) >= cfg.min_sessions

\* Mutant of Filtered: every entry is kept.
FilteredNothing(counts, cfg) == counts

\* lines 306-310: the dict comprehension keeps the insertion order
Filtered(counts, cfg) == SelectSeq(counts, LAMBDA e : MeetsThresholds(e.pat, cfg))

\* lines 356-360, 406-410, 464-468
FilteredPatterns(counts, cfg) ==
    LET kept == Filtered(counts, cfg) IN [i \in 1..Len(kept) |-> kept[i].pat]

\* ------------------------------------------------------------------ PatternDetector: steps

InitDetect ==
    /\ mode = "detect"
    /\ pc = "build"
    /\ MergeIdle
    /\ ratio = <<1, 2>>
    /\ ExtractIdle
    /\ DetectIdle
    /\ NormalizeIdle
    /\ exc = "none"

\* The storage layer ingests one more session; ids are unique.
AddSession ==
    /\ mode = "detect"
    /\ pc = "build"
    /\ Len(store) < MaxSessions
    /\ \E t \in SessionTemplates :
          store' = Append(store, Session("s" \o ToString(Len(store) + 1),
                                         t[1], t[2], t[3], t[4]))
    /\ UNCHANGED <<mode, pc, mergeVars, extractVars, normalizeVars, config, pipeline, acc, result, report, exc>>

\* Whether the detect method raises, and what.
DetectRaises(pl, db, cfg) ==
    \/ FilterRaises(db, cfg)
    \/ /\ pl = "tool_sequence"
       /\ \E s \in Range(FilteredSessions(db, cfg)) : ExtractRaises(s.tool_calls, NGram)
    \/ /\ pl = "file_access"
       /\ \E s \in Range(FilteredSessions(db, cfg)) :
             \E tc \in Range(s.tool_calls) : FileCallRaises(tc)

DetectException(pl, db, cfg) ==
    IF FilterRaises(db, cfg) THEN "TypeError"
    ELSE LET sessions == FilteredSessions(db, cfg)
         IN  IF pl = "tool_sequence"
             THEN LET bad == {i \in 1..Len(sessions) :
                                 ExtractRaises(sessions[i].tool_calls, NGram)}
                      i == CHOOSE j \in bad : \A k \in bad : j <= k
                  IN  ExtractException(sessions[i].tool_calls)
             ELSE LET bad == {i \in 1..Len(sessions) :
                                 \E tc \in Range(sessions[i].tool_calls) : FileCallRaises(tc)}
                      i == CHOOSE j \in bad : \A k \in bad : j <= k
                      calls == sessions[i].tool_calls
                      c == CHOOSE j \in 1..Len(calls) :
                              /\ FileCallRaises(calls[j])
                              /\ \A k \in 1..(j - 1) : ~FileCallRaises(calls[k])
                  IN  FileCallException(calls[c])

\* The body of a detect method up to its threshold filter.
DetectCall(pl, cfg) ==
    /\ mode = "detect"
    /\ pc = "build"
    /\ config' = cfg
    /\ pipeline' = pl
    /\ IF DetectRaises(pl, store, cfg)
       THEN /\ exc' = DetectException(pl, store, cfg)
            /\ acc' = <<>>
       ELSE /\ exc' = "none"
            /\ acc' = Accumulated(pl, Observations(pl, FilteredSessions(store, cfg)))
    /\ UNCHANGED <<mode, store, report, extractVars, normalizeVars>>

\* lines 272-313, up to the call of the merger.  The dict handed over holds
\* the very patterns of the accumulated dict; acc keeps what they were.
detect_tool_sequences ==
    /\ \E cfg \in DetectConfigs : DetectCall("tool_sequence", cfg)
    /\ IF exc' = "none"
       THEN pc' = "merge" /\ sequences' = Filtered(acc', config')
       ELSE pc' = "done" /\ UNCHANGED sequences
    /\ UNCHANGED <<given, ratio, sorted_seqs, idx, used, merged, origin, result>>

\* line 313: return merge_overlapping_sequences(filtered)
DetectReturn ==
    /\ mode = "detect"
    /\ pc = "return"
    /\ result' = merged
    /\ pc' = "done"
    /\ UNCHANGED <<mode, mergeVars, extractVars, normalizeVars, store, config, pipeline, acc, report, exc>>

\* lines 315-360
detect_prompt_prefixes ==
    /\ \E cfg \in DetectConfigs : DetectCall("prompt_prefix", cfg)
    /\ result' = FilteredPatterns(acc', config')
    /\ pc' = "done"
    /\ UNCHANGED mergeVars

\* lines 362-410
detect_prompt_phrases ==
    /\ \E cfg \in DetectConfigs : DetectCall("prompt_phrase", cfg)
    /\ result' = FilteredPatterns(acc', config')
    /\ pc' = "done"
    /\ UNCHANGED mergeVars

\* lines 412-468
detect_file_access ==
    /\ \E cfg \in DetectConfigs : DetectCall("file_access", cfg)
    /\ result' = FilteredPatterns(acc', config')
    /\ pc' = "done"
    /\ UNCHANGED mergeVars

NextDetect ==
    \/ AddSession
    \/ detect_tool_sequences
    \/ MergeCall
    \/ DetectReturn
    \/ detect_prompt_prefixes
    \/ detect_prompt_phrases
    \/ detect_file_access

SpecDetect == InitDetect /\ [][NextDetect]_vars

\* ------------------------------------------------------------------ RawPattern.to_dict

\* The characters of session ids and project names, by code point.
CodeOrder == "-" \o DIGITS \o UPPER \o LOWER

\* a < b on str: the first differing character decides, a proper prefix is less.
RECURSIVE StrLess(_, _)
StrLess(a, b) ==
    IF b = "" THEN FALSE
    ELSE IF a = "" THEN TRUE
    ELSE IF SubSeq(a, 1, 1) = SubSeq(b, 1, 1) THEN StrLess(Tail(a), Tail(b))
    ELSE IndexOf(CodeOrder, SubSeq(a, 1, 1)) < IndexOf(CodeOrder, SubSeq(b, 1, 1))

\* sorted(a set of str), lines 38 and 40
RECURSIVE Sorted(_)
Sorted(S) ==
    IF S = {} THEN <<>>
    ELSE LET m == CHOOSE x \in S : \A y \in S \ {x} : StrLess(x, y)
         IN  <<m>> \o Sorted(S \ {m})

\* Mutant of FirstThree: the list is not cut.
FirstThreeUncut(examples) == examples

\* line 45: self.examples[:3]
FirstThree(examples) == SubSeq(examples, 1, Min2(3, Len(examples)))

\* lines 33-46
to_dict(p) ==
    [pattern_type |-> p.pattern_type,
     pattern_key |-> p.pattern_key,
     occurrences |-> p.occurrences,
     sessions |-> Sorted(p.sessions),
     session_count |-> Cardinality(p.sessions),
     projects |-> Sorted(p.projects),
     project_count |-> Cardinality(p.projects),
     first_seen |-> p.first_seen,
     last_seen |-> p.last_seen,
     examples |-> FirstThree(p.examples)]

\* ------------------------------------------------------------------ PatternDetector: callers

\* What a detect method returns, for a store on which it does not raise.
DetectResult(pl, db, cfg) ==
    LET counts == Accumulated(pl, Observations(pl, FilteredSessions(db, cfg)))
    IN  IF pl = "tool_sequence"
        THEN merge_overlapping_sequences(Filtered(counts, cfg), <<1, 2>>)
        ELSE FilteredPatterns(counts, cfg)

\* How a call of a detect method ends: the exception that escapes it, or the
\* list it returns.
Outcome(pl, db, cfg) ==
    IF DetectRaises(pl, db, cfg)
    THEN [exc |-> DetectException(pl, db, cfg), patterns |-> <<>>]
    ELSE [exc |-> "none", patterns |-> DetectResult(pl, db, cfg)]

\* A detect method that has not returned yet.
NotCalled == [exc |-> "never", patterns |-> <<>>]

\* lines 472-477: the order in which detect_all calls the detect methods.
DetectAllOrder == <<"tool_sequence", "prompt_prefix", "prompt_phrase", "file_access">>

DetectAllRaises(db, cfg) == \E pl \in Pipelines : DetectRaises(pl, db, cfg)

\* The exception of the first detect method that raises.
DetectAllException(db, cfg) ==
    LET k == CHOOSE i \in 1..4 :
                /\ DetectRaises(DetectAllOrder[i], db, cfg)
                /\ \A j \in 1..(i - 1) : ~DetectRaises(DetectAllOrder[j], db, cfg)
    IN  DetectException(DetectAllOrder[k], db, cfg)

\* lines 470-477
detect_all(db, cfg) ==
    [tool_sequences |-> DetectResult("tool_sequence", db, cfg),
     prompt_prefixes |-> DetectResult("prompt_prefix", db, cfg),
     prompt_phrases |-> DetectResult("prompt_phrase", db, cfg),
     file_access |-> DetectResult("file_access", db, cfg)]

\* line 511, 513, 521: [p.to_dict() for p in ...], and len(...)
Serialized(patterns) == [i \in 1..Len(patterns) |-> to_dict(patterns[i])]

\* Mutant of ProjectsOfSessions: one project per session.
ProjectsOfSessionsById(sessions) == {sessions[i].id : i \in 1..Len(sessions)}

\* line 501: set(s["project"] for s in sessions)
ProjectsOfSessions(sessions) == {sessions[i].project : i \in 1..Len(sessions)}

\* lines 503-521, without generated_at (the clock's reading)
Report(patterns, sessions) ==
    [summary |->
        [total_sessions_analyzed |-> Len(sessions),
         total_projects |-> Cardinality(ProjectsOfSessions(sessions)),
         patterns_found |->
            [tool_sequences |-> Len(patterns.tool_sequences),
             prompt_prefixes |-> Len(patterns.prompt_prefixes),
             prompt_phrases |-> Len(patterns.prompt_phrases),
             file_access |-> Len(patterns.file_access)]],
     patterns |->
        [tool_sequences |-> Serialized(patterns.tool_sequences),
         prompt_prefixes |-> Serialized(patterns.prompt_prefixes),
         prompt_phrases |-> Serialized(patterns.prompt_phrases),
         file_access |-> Serialized(patterns.file_access)]]

\* The sessions of the stores a caller works on.
CallerTemplates ==
    {<<"project-a", 1, GitWorkflow, Login>>,
     <<"project-a", 2, GitWorkflow, UserModel>>,
     <<"project-b", 1, RepeatedReads, Messy>>,
     <<"project-b", 2, BadJson, Docs>>}

InitCalls ==
    /\ mode = "calls"
    /\ pc = "build"
    /\ MergeIdle
    /\ ratio = <<1, 2>>
    /\ ExtractIdle
    /\ DetectIdle
    /\ NormalizeIdle
    /\ exc = "none"

\* The storage layer ingests one more session, before any detector reads it.
Ingest ==
    /\ mode = "calls"
    /\ pc = "build"
    /\ Len(store) < MaxSessions
    /\ \E t \in CallerTemplates :
          store' = Append(store, Session("s" \o ToString(Len(store) + 1),
                                         t[1], t[2], t[3], t[4]))
    /\ UNCHANGED <<mode, pc, mergeVars, extractVars, normalizeVars, config, pipeline, acc, result, report, exc>>

\* lines 246-258: a caller makes a detector; none of its methods has returned.
Construct ==
    /\ mode = "calls"
    /\ pc = "build"
    /\ config' \in DetectConfigs
    /\ result' = [pl \in Pipelines |-> NotCalled]
    /\ pc' = "ready"
    /\ UNCHANGED <<mode, mergeVars, extractVars, normalizeVars, store, pipeline, acc, report, exc>>

\* The dict a detect method of the detector builds (lines 275-304, 318-354,
\* 365-404, 415-462), for a store on which it does not raise.
CallAccumulated(pl) ==
    AccumulatedOnto(FreshLocal(acc, <<>>), pl,
                    Observations(pl, FilteredSessions(store, config)))

\* lines 315-360, 362-410, 412-468: a whole call of detect_prompt_prefixes,
\* detect_prompt_phrases or detect_file_access on the detector, made when no
\* call is running or while a call of detect_tool_sequences is.
Call(pl) ==
    /\ mode = "calls"
    /\ pc \in {"ready", "merge", "loop", "return"}
    /\ pipeline' = pl
    /\ IF DetectRaises(pl, store, config)
       THEN /\ exc' = DetectException(pl, store, config)
            /\ acc' = <<>>
            /\ result' = [result EXCEPT ![pl] = [exc |-> exc', patterns |-> <<>>]]
       ELSE /\ exc' = "none"
            /\ acc' = CallAccumulated(pl)
            /\ result' = [result EXCEPT ![pl] =
                             [exc |-> "none", patterns |-> FilteredPatterns(acc', config)]]
    /\ UNCHANGED <<mode, pc, mergeVars, extractVars, normalizeVars, store, config, report>>

\* lines 272-313 up to the call of the merger, on the detector.
CallToolSequences ==
    /\ mode = "calls"
    /\ pc = "ready"
    /\ pipeline' = "tool_sequence"
    /\ IF DetectRaises("tool_sequence", store, config)
       THEN /\ exc' = DetectException("tool_sequence", store, config)
            /\ acc' = <<>>
            /\ result' = [result EXCEPT !["tool_sequence"] = [exc |-> exc', patterns |-> <<>>]]
            /\ UNCHANGED <<pc, sequences>>
       ELSE /\ exc' = "none"
            /\ acc' = CallAccumulated("tool_sequence")
            /\ sequences' = Filtered(acc', config)
            /\ pc' = "merge"
            /\ UNCHANGED result
    /\ UNCHANGED <<mode, given, ratio, sorted_seqs, idx, used, merged, origin, extractVars, normalizeVars,
                   store, config, report>>

\* line 313: detect_tool_sequences returns what the merger returned.
CallReturn ==
    /\ mode = "calls"
    /\ pc = "return"
    /\ result' = [result EXCEPT !["tool_sequence"] = [exc |-> "none", patterns |-> merged]]
    /\ pc' = "ready"
    /\ UNCHANGED <<mode, mergeVars, extractVars, normalizeVars, store, config, pipeline, acc, report, exc>>

\* lines 480-521: detect_patterns makes its own detector, calls detect_all and
\* reads the filtered sessions once more.
detect_patterns ==
    /\ mode = "calls"
    /\ pc = "build"
    /\ config' \in DetectConfigs
    /\ IF DetectAllRaises(store, config')
       THEN /\ exc' = DetectAllException(store, config')
            /\ UNCHANGED report
       ELSE /\ exc' = "none"
            /\ report' = Report(detect_all(store, config'), FilteredSessions(store, config'))
    /\ pc' = "done"
    /\ UNCHANGED <<mode, mergeVars, extractVars, normalizeVars, store, pipeline, acc, result>>

\* classifier.py lines 275-284: a RawPattern from a record of the report.
FromDict(d) ==
    RawPattern(d.pattern_type, d.pattern_key, d.occurrences,
               Range(d.sessions), Range(d.projects),
               d.first_seen, d.last_seen, d.examples)

\* classifier.py lines 271-284: raw_patterns_by_key after the records; a key
\* met again keeps its place and gets the later pattern.
RECURSIVE ByKey(_)
ByKey(records) ==
    IF records = <<>> THEN <<>>
    ELSE LET before == ByKey(SubSeq(records, 1, Len(records) - 1))
             d == records[Len(records)]
         IN  IF d.pattern_key \in Keys(before)
             THEN LET i == CHOOSE j \in 1..Len(before) : before[j].seq = d.pattern_key
                  IN  [before EXCEPT ![i].pat = FromDict(d)]
             ELSE Append(before, [seq |-> d.pattern_key, pat |-> FromDict(d)])

\* The records of a report, in the order of patterns_result["patterns"].items().
RecordsOf(rep) ==
    rep.patterns.tool_sequences \o rep.patterns.prompt_prefixes
       \o rep.patterns.prompt_phrases \o rep.patterns.file_access

\* classifier.py lines 257-284: classify re-parses the report it is given.
classify ==
    /\ mode = "calls"
    /\ pc = "done"
    /\ exc = "none"
    /\ result' = ByKey(RecordsOf(report))
    /\ pc' = "classified"
    /\ UNCHANGED <<mode, mergeVars, extractVars, normalizeVars, store, config, pipeline, acc, report, exc>>

NextCalls ==
    \/ Ingest
    \/ Construct
    \/ CallToolSequences
    \/ MergeCall
    \/ CallReturn
    \/ \E pl \in Pipelines \ {"tool_sequence"} : Call(pl)
    \/ detect_patterns
    \/ classify

SpecCalls == InitCalls /\ [][NextCalls]_vars

\* ------------------------------------------------------------------ normalizers: steps

\* The commands handed to normalize_bash_command: those of the fixture, flags
\* and paths in second place, blanks only, and quotes, balanced and not.
Commands ==
    {"git status", "git -v", "git /tmp", "git", "ls -la", "echo hello", "npm install",
     "docker compose up", "  ",
     "echo \"hi", "git \"commit -m", "git \"log\" -1", "npm 'run build'", "''"}

\* input_json as a string: no JSON, JSON that is no object, and objects with
\* the command missing, falsy, not a string, or a string.
BashJsons ==
    {Json("invalid", NoField, NoField), Json("nonobject", NoField, NoField),
     Json("object", NoField, NoField), Json("object", Field("falsy", ""), NoField),
     Json("object", Field("nonstring", ""), NoField)}
    \cup {CommandJson(c) : c \in Commands}

\* The paths handed to normalize_file_path: those of the stores and of the
\* tests, one of each home shape, shapes inside a path and after a home
\* prefix, a home without a name or without a separator behind it, and what
\* normalize_file_path makes of them all.
RawPaths ==
    StoredPaths \cup
    {"/Users/john/project/file.py", "/home/john/project/file.py",
     "/mnt/c/Users/john/project/file.py", "C:\\Users\\john\\project\\file.py",
     "src/file.py", "/home/john/home/dev/file.py", "/Users/john/mnt/c/Users/dev/x",
     "/var/home/john/file.py", "/Users/john", "/home//file.py", "/mnt/c/file.py"}

FilePaths == RawPaths \cup {normalize_file_path(path) : path \in RawPaths}

NormalizerCalls ==
    {[fn |-> "normalize_bash_command", value |-> j] : j \in BashJsons}
    \cup {[fn |-> "normalize_tool_name", value |-> ToolCall(nm, j, Absent)] :
             nm \in {"Bash", "Read", ""}, j \in BashJsons \cup {NoJson}}
    \cup {[fn |-> "normalize_prompt", value |-> text] : text \in StoredTexts}
    \cup {[fn |-> "normalize_file_path", value |-> path] : path \in FilePaths}

InitNormalize ==
    /\ mode = "normalize"
    /\ pc = "build"
    /\ MergeIdle
    /\ ratio = <<1, 2>>
    /\ ExtractIdle
    /\ DetectIdle
    /\ NormalizeIdle
    /\ exc = "none"

\* A caller hands an argument to a normalizer.
Pass ==
    /\ mode = "normalize"
    /\ pc = "build"
    /\ arg' \in NormalizerCalls
    /\ pc' = "call"
    /\ UNCHANGED <<mode, mergeVars, extractVars, detectVars, ret, exc>>

NormalizerRaises(a) ==
    \/ a.fn = "normalize_bash_command" /\ BashCommandRaises(a.value)
    \/ a.fn = "normalize_tool_name" /\ NormalizeToolNameRaises(a.value)

NormalizerException(a) ==
    IF a.fn = "normalize_bash_command" THEN BashCommandException(a.value)
    ELSE BashCommandException(InputJsonOf(a.value))

NormalizerValue(a) ==
    CASE a.fn = "normalize_bash_command" -> normalize_bash_command(a.value)
      [] a.fn = "normalize_tool_name" -> normalize_tool_name(a.value)
      [] a.fn = "normalize_prompt" -> normalize_prompt(a.value)
      [] a.fn = "normalize_file_path" -> normalize_file_path(a.value)

\* lines 49-81, 84-92, 121-132, 152-164: the call returns or raises.
Normalize ==
    /\ mode = "normalize"
    /\ pc = "call"
    /\ IF NormalizerRaises(arg)
       THEN exc' = NormalizerException(arg) /\ ret' = ""
       ELSE exc' = "none" /\ ret' = NormalizerValue(arg)
    /\ pc' = "done"
    /\ UNCHANGED <<mode, mergeVars, extractVars, detectVars, arg>>

NextNormalize == Pass \/ Normalize

SpecNormalize == InitNormalize /\ [][NextNormalize]_vars

\* ------------------------------------------------------------------ merge: properties

\* The last k tokens of S are the first k tokens of T, for a proper overlap k.
SufPre(S, T, k) ==
    /\ k \in 1..(Len(S) - 1)
    /\ k <= Len(T)
    /\ \A m \in 1..k : S[Len(S) - k + m] = T[m]

OverlapLens(S, T) == {k \in 1..(Len(S) - 1) : SufPre(S, T, k)}

LeastOf(ks) == CHOOSE k \in ks : \A m \in ks : k <= m

\* min(a, b) / max(a, b) >= r, for r = r[1] / r[2]
Similar(a, b, r) ==
    (IF a < b THEN a ELSE b) * r[2] >= r[1] * (IF a < b THEN b ELSE a)

\* S followed by T without its first k tokens.
Fusion(S, T, k) == S \o [m \in 1..(Len(T) - k) |-> T[k + m]]

IsFused(j) == Len(origin[j]) = 2

Fusions == {j \in 1..Len(merged) : IsFused(j)}

Occ(i) == given[i].pat.occurrences

\* C1 as claimed: for every two-entry mapping {X, Y} of equal-length tuples in
\* which a proper suffix of one is a prefix of the other and whose counts pass
\* the ratio test, the call returns exactly one pattern, the fusion, with the
\* minimum of the two counts -- whichever tuple has the higher count and
\* whichever comes first in the mapping.
C1_AnyOrderFuses ==
    (/\ mode = "merge" /\ pc = "done" /\ Len(given) = 2
     /\ Similar(Occ(1), Occ(2), ratio)
     /\ \/ OverlapLens(given[1].seq, given[2].seq) # {}
        \/ OverlapLens(given[2].seq, given[1].seq) # {})
    => /\ Len(merged) = 1
       /\ merged[1].occurrences = (IF Occ(1) < Occ(2) THEN Occ(1) ELSE Occ(2))
       /\ \/ \E k \in OverlapLens(given[1].seq, given[2].seq) :
                merged[1].pattern_key = JoinArrow(Fusion(given[1].seq, given[2].seq, k))
          \/ \E k \in OverlapLens(given[2].seq, given[1].seq) :
                merged[1].pattern_key = JoinArrow(Fusion(given[2].seq, given[1].seq, k))

\* C1 as amended: for every two-entry mapping of equal-length tuples whose
\* counts pass the ratio test, let S be the tuple that sorts first (the higher
\* count; on equal counts the one inserted first) and T the other.  If a proper
\* suffix of S is a prefix of T, the call returns exactly one pattern whose key
\* is S followed by T beyond the shortest such overlap, joined with " → ", and
\* whose occurrences is the minimum of the two counts; otherwise (also when
\* only a suffix of T is a prefix of S) it returns two patterns, unfused.
C1_SortedFirstFuses ==
    (/\ mode = "merge" /\ pc = "done" /\ Len(given) = 2
     /\ Similar(Occ(1), Occ(2), ratio))
    => LET s == IF Occ(1) >= Occ(2) THEN 1 ELSE 2
           S == given[s].seq
           T == given[3 - s].seq
           ks == OverlapLens(S, T)
       IN  IF ks # {}
           THEN /\ Len(merged) = 1
                /\ merged[1].pattern_key = JoinArrow(Fusion(S, T, LeastOf(ks)))
                /\ merged[1].occurrences = (IF Occ(1) < Occ(2) THEN Occ(1) ELSE Occ(2))
           ELSE /\ Len(merged) = 2
                /\ merged[1].pattern_key = JoinArrow(S)
                /\ merged[2].pattern_key = JoinArrow(T)

\* C1 witness: a two-entry call that fused although the left tuple was inserted
\* second (it has the higher count), and only that direction overlaps.
C1_Witness ==
    /\ mode = "merge" /\ pc = "done" /\ Len(given) = 2
    /\ Len(merged) = 1
    /\ origin[1] = <<2, 1>>
    /\ Occ(2) > Occ(1)
    /\ OverlapLens(given[1].seq, given[2].seq) = {}

\* C3: a pair (S, T) is fused only if some suffix of S of length k in
\* 1..|S|-1 is the length-k prefix of T and min/max of the counts is at least
\* min_overlap_ratio; a ratio equal to the threshold is accepted (counts 10 and
\* 5 at ratio 0.5 fuse), counts 10 and 2 at ratio 0.5 never fuse, and sequences
\* without a suffix/prefix overlap never fuse.
C3_FuseOnlyIfOverlapAndRatio ==
    /\ \A j \in 1..Len(merged) :
          IsFused(j) =>
             LET S == given[origin[j][1]].seq
                 T == given[origin[j][2]].seq
             IN  /\ \E k \in OverlapLens(S, T) :
                       merged[j].pattern_key = JoinArrow(Fusion(S, T, k))
                 /\ Similar(Occ(origin[j][1]), Occ(origin[j][2]), ratio)
                 /\ ratio = <<1, 2>> => {Occ(origin[j][1]), Occ(origin[j][2])} # {10, 2}
    /\ (/\ mode = "merge" /\ pc = "done" /\ Len(given) = 2 /\ ratio = <<1, 2>>
        /\ Occ(1) = 10 /\ Occ(2) = 5
        /\ OverlapLens(given[1].seq, given[2].seq) # {})
       => Len(merged) = 1

\* C3 witness: counts 10 and 5 fused at ratio 0.5.
C3_Witness ==
    /\ mode = "merge" /\ pc = "done" /\ ratio = <<1, 2>>
    /\ \E j \in Fusions : {Occ(origin[j][1]), Occ(origin[j][2])} = {10, 5}

\* The bound of S and T that is present and extreme in the direction le.
Extreme(a, b, m, le(_, _)) ==
    LET present == {x \in {a, b} : x # None}
    IN  IF present = {} THEN m = None
        ELSE m \in present /\ \A x \in present : le(m, x)

Leq(a, b) == a <= b

Geq(a, b) == a >= b

OutputsOf(i) == {j \in 1..Len(merged) : \E m \in 1..Len(origin[j]) : origin[j][m] = i}

\* What C5 says of every state of a call.
C5_State ==
    /\ \A j \in 1..Len(merged) :
          /\ Len(origin[j]) \in {1, 2}
          /\ \A m \in 1..Len(origin[j]) : origin[j][m] \in 1..Len(given)
          /\ IsFused(j) => origin[j][1] # origin[j][2]
          /\ IF IsFused(j)
             THEN \E k \in OverlapLens(given[origin[j][1]].seq, given[origin[j][2]].seq) :
                     merged[j].pattern_key =
                        JoinArrow(Fusion(given[origin[j][1]].seq,
                                         given[origin[j][2]].seq, k))
             ELSE merged[j].pattern_key = JoinArrow(given[origin[j][1]].seq)
    /\ \A i \in 1..Len(given) : Cardinality(OutputsOf(i)) <= 1
    /\ pc = "done" =>
          /\ \A i \in 1..Len(given) : Cardinality(OutputsOf(i)) = 1
          /\ Len(merged) = Len(given) - Cardinality(Fusions)
    /\ pc = "loop" => idx \in 1..(Len(given) + 1)

\* What C5 says of every step of the loop: it moves on to the next input
\* sequence, or it ends the call once all of them have been visited.
C5_Step ==
    pc = "loop" =>
       \/ pc' = "loop" /\ idx' = idx + 1
       \/ pc' = "done" /\ idx = Len(given) + 1

\* C5: single-level merge.  Every input sequence goes into at most one output
\* pattern while the call runs and into exactly one when it has returned,
\* either alone or as one of the two components of a fusion; no output is
\* built from more than two inputs (its key is one input tuple, or the fusion
\* of two input tuples, never of a fused one); the output has as many patterns
\* as the input minus the number of fusions; and the call terminates: every
\* step of the loop moves to the next of the finitely many input sequences
\* and the call returns after the last.
C5_SingleLevelMerge == [](mode = "merge" => C5_State) /\ [][mode = "merge" => C5_Step]_vars

\* C5 witness: a returned call with three inputs, one fusion and one sequence
\* emitted alone after its only overlapping candidate had been consumed.
C5_Witness ==
    /\ mode = "merge" /\ pc = "done"
    /\ Len(given) = 3 /\ Len(merged) = 2
    /\ \E j \in 1..2 : /\ IsFused(j)
                       /\ \E i \in 1..3 :
                             /\ OutputsOf(i) = {3 - j}
                             /\ OverlapLens(given[i].seq, given[origin[j][2]].seq) # {}
                             /\ Similar(Occ(i), Occ(origin[j][2]), ratio)

\* The sequence the outer loop is at, when it is about to be processed.
Current == sorted_seqs[idx]

Processing ==
    /\ mode = "merge" /\ pc = "loop" /\ idx <= Len(sorted_seqs)
    /\ given[Current].seq \notin used

\* The candidates that could be fused to the current sequence: not the
\* sequence itself, not consumed, overlapping it, and passing the ratio test.
EligiblePartners ==
    {t \in 1..Len(given) :
        /\ t # Current
        /\ given[t].seq \notin used
        /\ OverlapLens(given[Current].seq, given[t].seq) # {}
        /\ Similar(Occ(Current), Occ(t), ratio)}

\* C6: a sequence that has no eligible partner when it is processed (no
\* overlap, or every overlapping candidate fails the ratio test or is already
\* consumed) is emitted as a pattern with the occurrences, sessions, projects,
\* first_seen, last_seen and examples of its input pattern and with
\* pattern_key = its tuple joined with " → ".
C6_NoPartnerEmittedUnchanged ==
    [][(Processing /\ EligiblePartners = {})
       => /\ Len(merged') = Len(merged) + 1
          /\ \A j \in 1..Len(merged) : merged'[j] = merged[j]
          /\ LET m == merged'[Len(merged')]
                 p == given[Current].pat
             IN  /\ m.pattern_key = JoinArrow(given[Current].seq)
                 /\ m.pattern_type = p.pattern_type
                 /\ m.occurrences = p.occurrences
                 /\ m.sessions = p.sessions
                 /\ m.projects = p.projects
                 /\ m.first_seen = p.first_seen
                 /\ m.last_seen = p.last_seen
                 /\ m.examples = p.examples]_vars

\* C6 witness: a sequence was emitted alone although a candidate overlaps it:
\* that candidate fails the ratio test.
C6_Witness ==
    /\ mode = "merge" /\ pc = "done"
    /\ \E j \in 1..Len(merged) :
          /\ ~IsFused(j)
          /\ merged[j].pattern_key = JoinArrow(given[origin[j][1]].seq)
          /\ \E t \in 1..Len(given) :
                /\ t # origin[j][1]
                /\ OverlapLens(given[origin[j][1]].seq, given[t].seq) # {}
                /\ ~Similar(Occ(origin[j][1]), Occ(t), ratio)

\* The call of merge_overlapping_sequences has returned.
MergeDone == mode = "merge" /\ pc = "done"

\* The input entries emitted without a merge.
KeptInputs == {origin[j][1] : j \in {k \in 1..Len(merged) : ~IsFused(k)}}

\* C15 as claimed: merge_overlapping_sequences is read-only with respect to
\* its input: after the call every RawPattern held in the input mapping has
\* the pattern_key, occurrences, sessions, projects, first_seen, last_seen
\* and examples it had before the call (a sequence emitted without a merge
\* being returned as a copy).
C15_InputReadOnly == MergeDone => sequences = given

\* C15, what the code does: after the call the input mapping has the same
\* keys in the same order; every pattern in it keeps its occurrences,
\* sessions, projects, first_seen, last_seen and examples; the pattern of a
\* sequence that was fused keeps its pattern_key too, while the pattern of a
\* sequence emitted without a merge is the emitted object itself and has
\* pattern_key = its tuple joined with " → ".
C15_InputKeptButForKey ==
    MergeDone =>
       /\ Len(sequences) = Len(given)
       /\ \A i \in 1..Len(given) :
             /\ sequences[i].seq = given[i].seq
             /\ sequences[i].pat.pattern_type = given[i].pat.pattern_type
             /\ sequences[i].pat.occurrences = given[i].pat.occurrences
             /\ sequences[i].pat.sessions = given[i].pat.sessions
             /\ sequences[i].pat.projects = given[i].pat.projects
             /\ sequences[i].pat.first_seen = given[i].pat.first_seen
             /\ sequences[i].pat.last_seen = given[i].pat.last_seen
             /\ sequences[i].pat.examples = given[i].pat.examples
             /\ i \notin KeptInputs => sequences[i].pat = given[i].pat
             /\ i \in KeptInputs =>
                   /\ sequences[i].pat.pattern_key = JoinArrow(given[i].seq)
                   /\ \E j \in 1..Len(merged) :
                         origin[j] = <<i>> /\ merged[j] = sequences[i].pat

\* C15 witness: the call returned one fusion and one sequence emitted alone;
\* the input pattern of the latter, which held examples and an empty key, now
\* holds the joined key.
C15_Witness ==
    /\ MergeDone
    /\ Fusions # {}
    /\ \E i \in KeptInputs :
          /\ given[i].pat.pattern_key = ""
          /\ given[i].pat.examples # <<>>
          /\ sequences[i].pat.pattern_key = JoinArrow(given[i].seq)

\* ------------------------------------------------------------------ extract: properties

\* The rank of a call's timestamp: a call without one ranks lowest.
RankOf(tc) == IF tc.timestamp \in {Absent, None} THEN 0 ELSE tc.timestamp

\* The normalized names of the calls of ExtractCalls, written out.
NameOf(tc) == IF tc.tool_name = "Bash" THEN "Bash:git-status" ELSE tc.tool_name

\* pi lists the positions 1..k in ascending timestamp order, positions with
\* equal timestamps in input order.
IsStableOrder(calls, pi) ==
    /\ \A a, b \in 1..Len(calls) : a # b => pi[a] # pi[b]
    /\ \A a, b \in 1..Len(calls) :
          a < b => \/ RankOf(calls[pi[a]]) < RankOf(calls[pi[b]])
                   \/ /\ RankOf(calls[pi[a]]) = RankOf(calls[pi[b]])
                      /\ pi[a] < pi[b]

\* The call returned the windows of the calls in stable timestamp order.
ReturnedWindows ==
    /\ exc = "none"
    /\ LET k == Len(tool_calls)
       IN  IF k < n_arg THEN windows = <<>>
           ELSE /\ Len(windows) = k - n_arg + 1
                /\ \E pi \in [1..k -> 1..k] :
                      /\ IsStableOrder(tool_calls, pi)
                      /\ \A i \in 1..(k - n_arg + 1) :
                            /\ Len(windows[i]) = n_arg
                            /\ \A m \in 1..n_arg :
                                  windows[i][m] = NameOf(tool_calls[pi[i + m - 1]])

\* C8 as claimed: extract_tool_sequences(tool_calls, n) returns the empty
\* list when fewer than n calls are given, and for k >= n >= 1 calls exactly
\* k - n + 1 windows, window i holding the normalized names of calls
\* i..i+n-1 of the calls sorted ascending by timestamp, calls with equal
\* timestamps in input order and calls without a timestamp first -- whether
\* the timestamp is missing from the call or null.
C8_WindowsForAnyTimestamp ==
    (mode = "extract" /\ pc = "done") => ReturnedWindows

\* C8 for calls whose timestamp is a string or is missing from the call: the
\* call returns the empty list for fewer than n calls and otherwise the
\* k - n + 1 windows of the calls in stable ascending timestamp order, a
\* missing timestamp first.
C8_ExtractWindows ==
    (/\ mode = "extract" /\ pc = "done"
     /\ \A i \in 1..Len(tool_calls) : tool_calls[i].timestamp # None)
    => ReturnedWindows

\* C8 witness: three calls given out of timestamp order, one of them without a
\* timestamp and behind a call with one, returned as two windows of 2.
C8_Witness ==
    /\ mode = "extract" /\ pc = "done" /\ exc = "none"
    /\ Len(tool_calls) = 3 /\ n_arg = 2 /\ Len(windows) = 2
    /\ tool_calls[1].timestamp = 2
    /\ tool_calls[2].timestamp = Absent
    /\ tool_calls[3].timestamp = 1
    /\ tool_calls[1].tool_name # tool_calls[2].tool_name
    /\ tool_calls[2].tool_name # tool_calls[3].tool_name

\* ------------------------------------------------------------------ PatternDetector: properties

\* A detect method returned.
Returned(pl) == mode = "detect" /\ pipeline = pl /\ pc = "done" /\ exc = "none"

\* The entry's counts meet the configured thresholds.
Retained(e) ==
    /\ e.pat.occurrences >= config.min_occurrences
    /\ Cardinality(e.pat.sessions) >= config.min_sessions

\* C2: in detect_prompt_prefixes, detect_prompt_phrases and detect_file_access
\* the returned patterns are exactly the accumulated patterns with
\* occurrences >= min_occurrences and |sessions| >= min_sessions, none
\* missing, none extra, none twice; in detect_tool_sequences exactly those
\* entries of the accumulated dict are passed to merge_overlapping_sequences.
C2_ThresholdFilter ==
    /\ \A pl \in Pipelines \ {"tool_sequence"} :
          Returned(pl) =>
             /\ \A i \in 1..Len(acc) :
                   Retained(acc[i]) <=> \E j \in 1..Len(result) : result[j] = acc[i].pat
             /\ \A j \in 1..Len(result) : \E i \in 1..Len(acc) : result[j] = acc[i].pat
             /\ Len(result) = Cardinality({i \in 1..Len(acc) : Retained(acc[i])})
    /\ (/\ mode = "detect" /\ pipeline = "tool_sequence" /\ exc = "none"
        /\ pc \in {"loop", "return", "done"})
       => /\ \A i \in 1..Len(acc) :
                Retained(acc[i]) <=> \E j \in 1..Len(given) : given[j] = acc[i]
          /\ \A j \in 1..Len(given) : \E i \in 1..Len(acc) : given[j] = acc[i]
          /\ Len(given) = Cardinality({i \in 1..Len(acc) : Retained(acc[i])})

\* C2 witness: detect_file_access returned some patterns and left out one
\* whose occurrences meet min_occurrences but whose sessions are too few.
C2_Witness ==
    /\ Returned("file_access")
    /\ result # <<>>
    /\ \E i \in 1..Len(acc) :
          /\ acc[i].pat.occurrences >= config.min_occurrences
          /\ Cardinality(acc[i].pat.sessions) < config.min_sessions

\* C7 as claimed: no detect method raises, whatever the stored records look
\* like: null timestamps, input_json that is no object or holds fields that
\* are no strings, null started_at.
C7_NoDetectionRaises == mode = "detect" => exc = "none"

\* The elements of a set of numbers in ascending order.
RECURSIVE Ascending(_)
Ascending(S) ==
    IF S = {} THEN <<>>
    ELSE LET m == CHOOSE x \in S : \A y \in S : x <= y
         IN  <<m>> \o Ascending(S \ {m})

\* A Read, Edit or Write call whose input is an object with a non-empty
\* string file_path.
IsFileAccess(tc) ==
    /\ tc.tool_name \in {"Read", "Edit", "Write"}
    /\ tc.input_json.kind = "object"
    /\ tc.input_json.file_path.kind = "str"
    /\ tc.input_json.file_path.text # ""

PathOf(tc) == tc.input_json.file_path.text

\* The positions of the session's calls that access a path normalizing to key.
CallsTo(s, key) ==
    {i \in 1..Len(s.tool_calls) :
        /\ IsFileAccess(s.tool_calls[i])
        /\ NormalizedPath[PathOf(s.tool_calls[i])] = key}

\* C9: detect_file_access observes only Read/Edit/Write calls with a
\* non-empty file_path and counts a normalized path once per session: every
\* accumulated (hence every returned) pattern has occurrences = |sessions| =
\* the number of filtered sessions holding such a call to the key, and its
\* first_seen, last_seen and examples come from the first such call of each
\* session in scan order only.  /Users/test/project-a/src/config.py read in a
\* session puts that session under the key ~/project-a/src/config.py.
C9_FileAccessOncePerSession ==
    Returned("file_access") =>
       LET sess == FilteredSessions(store, config)
       IN  /\ Keys(acc) = UNION {{NormalizedPath[PathOf(tc)] :
                                     tc \in {c \in Range(s.tool_calls) : IsFileAccess(c)}} :
                                 s \in Range(sess)}
           /\ \A j \in 1..Len(result) : \E i \in 1..Len(acc) : result[j] = acc[i].pat
           /\ \A i \in 1..Len(acc) :
                 LET key == acc[i].seq
                     p == acc[i].pat
                     hits == Ascending({k \in 1..Len(sess) : CallsTo(sess[k], key) # {}})
                     firsts == [h \in 1..Len(hits) |->
                                   sess[hits[h]].tool_calls[
                                       Ascending(CallsTo(sess[hits[h]], key))[1]]]
                     stamps == {t \in {firsts[h].timestamp : h \in 1..Len(hits)} : t > 0}
                 IN  /\ p.pattern_key = key
                     /\ p.occurrences = Len(hits)
                     /\ Cardinality(p.sessions) = Len(hits)
                     /\ p.sessions = {sess[hits[h]].id : h \in 1..Len(hits)}
                     /\ p.first_seen = IF stamps = {} THEN None
                                       ELSE CHOOSE t \in stamps : \A u \in stamps : t <= u
                     /\ p.last_seen = IF stamps = {} THEN None
                                      ELSE CHOOSE t \in stamps : \A u \in stamps : t >= u
                     /\ p.examples = [h \in 1..Min2(3, Len(hits)) |->
                                         firsts[h].tool_name \o ": " \o PathOf(firsts[h])]
           /\ \A k \in 1..Len(sess) :
                 (\E tc \in Range(sess[k].tool_calls) :
                      /\ tc.tool_name = "Read"
                      /\ IsFileAccess(tc)
                      /\ PathOf(tc) = "/Users/test/project-a/src/config.py")
                 => \E i \in 1..Len(acc) :
                       /\ acc[i].seq = "~/project-a/src/config.py"
                       /\ sess[k].id \in acc[i].pat.sessions

\* C9 witness: two sessions each read config.py three times, first at
\* timestamp 2, later at 1 and 3; the returned pattern counts 2 and holds
\* the timestamp 2 only.
C9_Witness ==
    /\ Returned("file_access")
    /\ Len(store) = 2
    /\ \A k \in 1..2 : Cardinality(CallsTo(store[k], "~/project-a/src/config.py")) = 3
    /\ \E j \in 1..Len(result) :
          /\ result[j].pattern_key = "~/project-a/src/config.py"
          /\ result[j].occurrences = 2
          /\ Cardinality(result[j].sessions) = 2
          /\ result[j].first_seen = 2
          /\ result[j].last_seen = 2

\* The windows of a session and how many of them equal key.
WindowsOf(s) == WindowsOfCalls[s.tool_calls]

CountIn(s, key) == Cardinality({i \in 1..Len(WindowsOf(s)) : WindowsOf(s)[i] = key})

RECURSIVE SumCounts(_, _)
SumCounts(sess, key) ==
    IF sess = <<>> THEN 0 ELSE CountIn(sess[1], key) + SumCounts(Tail(sess), key)

\* C10: in detect_tool_sequences, before the threshold filter, the
\* occurrences of a window key is the total number of window positions, over
\* all filtered sessions, whose normalized 3-gram is the key -- no
\* de-duplication within a session -- and sessions holds each contributing
\* session's id once.
C10_EveryWindowCounted ==
    (mode = "detect" /\ pipeline = "tool_sequence" /\ exc = "none")
    => LET sess == FilteredSessions(store, config)
       IN  /\ Keys(acc) = UNION {Range(WindowsOf(s)) : s \in Range(sess)}
           /\ \A i \in 1..Len(acc) :
                 /\ acc[i].pat.occurrences = SumCounts(sess, acc[i].seq)
                 /\ acc[i].pat.sessions =
                       {s.id : s \in {t \in Range(sess) : CountIn(t, acc[i].seq) > 0}}

\* C10 witness: a window counted more often than it has sessions, in two
\* sessions.
C10_Witness ==
    /\ Returned("tool_sequence")
    /\ \E i \in 1..Len(acc) :
          /\ Cardinality(acc[i].pat.sessions) = 2
          /\ acc[i].pat.occurrences > 2
          /\ \E s \in Range(store) : CountIn(s, acc[i].seq) >= 2

\* The sum of a list of numbers.
RECURSIVE SumSeq(_)
SumSeq(nums) == IF nums = <<>> THEN 0 ELSE nums[1] + SumSeq(Tail(nums))

\* The message is a user message with non-empty content.
IsPrompt(m) == m.type = "user" /\ m.content.kind = "str" /\ m.content.text # ""

\* The words of the message's normalized text hold the n-gram somewhere.
ContainsPhrase(m, phrase) ==
    LET words == WordsOfText[m.content.text]
    IN  \E i \in 1..(Len(words) - Len(phrase) + 1) :
           SubSeq(words, i, i + Len(phrase) - 1) = phrase

\* The positions of the session's prompts that hold the phrase.
PromptsWith(s, phrase) ==
    {i \in 1..Len(s.messages) :
        IsPrompt(s.messages[i]) /\ ContainsPhrase(s.messages[i], phrase)}

\* The 5-grams of a list of words.
NGramsOf(words) ==
    {SubSeq(words, i, i + 4) : i \in 1..(Len(words) - 4)}

\* C11: in detect_prompt_phrases the occurrences of a phrase is the number
\* of user messages with non-empty content, over all filtered sessions, whose
\* normalized text holds the 5-gram at least once: once per message however
\* often the message repeats it, twice for two messages of one session, and
\* never for an assistant message.
C11_PhraseOncePerMessage ==
    Returned("prompt_phrase") =>
       LET sess == FilteredSessions(store, config)
       IN  /\ Keys(acc) =
                 UNION {UNION {NGramsOf(WordsOfText[m.content.text]) :
                                  m \in {x \in Range(s.messages) : IsPrompt(x)}} :
                        s \in Range(sess)}
           /\ \A i \in 1..Len(acc) :
                 /\ Len(acc[i].seq) = 5
                 /\ acc[i].pat.occurrences =
                       SumSeq([k \in 1..Len(sess) |->
                                  Cardinality(PromptsWith(sess[k], acc[i].seq))])
                 /\ acc[i].pat.sessions =
                       {s.id : s \in {t \in Range(sess) : PromptsWith(t, acc[i].seq) # {}}}

\* C11 witness: a phrase held by two messages of one session counts 2, a
\* phrase that one message says twice counts 1, and an assistant message
\* long enough for a phrase was passed over.
C11_Witness ==
    /\ Returned("prompt_phrase")
    /\ \E i \in 1..Len(acc) :
          acc[i].pat.occurrences = 2 /\ Cardinality(acc[i].pat.sessions) = 1
    /\ \E i \in 1..Len(acc) :
          /\ acc[i].seq = <<"go", "go", "go", "go", "go">>
          /\ acc[i].pat.occurrences = 1
    /\ \E s \in Range(FilteredSessions(store, config)) :
          \E m \in Range(s.messages) :
             /\ m.type = "assistant"
             /\ ContainsPhrase(m, <<"go", "go", "go", "go", "go">>)

\* The words of the message's normalized text.
WordsOf(m) == WordsOfText[m.content.text]

\* A user message of at least 10 characters whose normalized text has at
\* least 3 words.
HasPrefix(m) ==
    /\ m.type = "user"
    /\ m.content.kind = "str"
    /\ Len(m.content.text) >= 10
    /\ Len(WordsOf(m)) >= 3

\* The first up-to-5 words joined by single blanks.
PrefixOf5(m) == JoinBlank(SubSeq(WordsOf(m), 1, Min2(5, Len(WordsOf(m)))))

\* The positions of the session's messages that have the prefix key.
MessagesWithPrefix(s, key) ==
    {i \in 1..Len(s.messages) : HasPrefix(s.messages[i]) /\ PrefixOf5(s.messages[i]) = key}

\* C12: in detect_prompt_prefixes a user message contributes exactly one
\* observation iff its content has at least 10 characters and its normalized
\* prefix at least 3 tokens, and nothing otherwise; every key is the first
\* up-to-5 normalized tokens joined by single blanks (3 to 5 tokens), and
\* 'help me fix the bug in the login function' counts under
\* 'help me fix the bug'.
C12_PrefixObservations ==
    Returned("prompt_prefix") =>
       LET sess == FilteredSessions(store, config)
       IN  /\ Keys(acc) =
                 UNION {{PrefixOf5(m) : m \in {x \in Range(s.messages) : HasPrefix(x)}} :
                        s \in Range(sess)}
           /\ \A i \in 1..Len(acc) :
                 /\ acc[i].pat.pattern_key = acc[i].seq
                 /\ Len(Split(acc[i].seq)) \in 3..5
                 /\ JoinBlank(Split(acc[i].seq)) = acc[i].seq
                 /\ acc[i].pat.occurrences =
                       SumSeq([k \in 1..Len(sess) |->
                                  Cardinality(MessagesWithPrefix(sess[k], acc[i].seq))])
           /\ SumSeq([i \in 1..Len(acc) |-> acc[i].pat.occurrences]) =
                 SumSeq([k \in 1..Len(sess) |->
                            Cardinality({i \in 1..Len(sess[k].messages) :
                                            HasPrefix(sess[k].messages[i])})])
           /\ \A j \in 1..Len(result) : \E i \in 1..Len(acc) : result[j] = acc[i].pat
           /\ \A s \in Range(sess) :
                 (\E m \in Range(s.messages) :
                     /\ m.type = "user"
                     /\ m.content = Str("help me fix the bug in the login function"))
                 => \E i \in 1..Len(acc) :
                       /\ acc[i].seq = "help me fix the bug"
                       /\ s.id \in acc[i].pat.sessions

\* C12 witness: the returned keys include 'help me fix the bug' counted for
\* two messages and a key of 4 tokens, while a message of 9 characters with
\* 3 tokens and one of 19 characters with 2 tokens were passed over.
C12_Witness ==
    /\ Returned("prompt_prefix")
    /\ \E j \in 1..Len(result) :
          result[j].pattern_key = "help me fix the bug" /\ result[j].occurrences = 2
    /\ \E j \in 1..Len(result) : Len(Split(result[j].pattern_key)) = 4
    /\ \E s \in Range(FilteredSessions(store, config)) :
          /\ \E m \in Range(s.messages) :
                m.type = "user" /\ m.content = Str("do it now")
          /\ \E m \in Range(s.messages) :
                m.type = "user" /\ m.content = Str("refactor everything")

\* A call of a detect method got past the accumulation.
Accumulating == mode = "detect" /\ pipeline # "" /\ exc = "none"

\* The least and the greatest of a non-empty set of numbers.
MinOf(S) == CHOOSE x \in S : \A y \in S : x <= y

MaxOf(S) == CHOOSE x \in S : \A y \in S : x >= y

\* first_seen and last_seen are the bounds of the timestamps offered, those
\* that are absent, null or empty left out; None when none is left.
BoundsOf(p, offered) ==
    LET stamps == {t \in offered : t > 0}
    IN  /\ p.first_seen = IF stamps = {} THEN None ELSE MinOf(stamps)
        /\ p.last_seen = IF stamps = {} THEN None ELSE MaxOf(stamps)

\* The timestamps that the filtered sessions offer to a key of the tool
\* sequence and prompt pipelines: started_at of the sessions with the window,
\* the timestamps of the messages with the prefix or the phrase.
OfferedTo(pl, sess, key) ==
    CASE pl = "tool_sequence" ->
            {s.started_at : s \in {t \in Range(sess) : CountIn(t, key) > 0}}
      [] pl = "prompt_prefix" ->
            UNION {{s.messages[i].timestamp : i \in MessagesWithPrefix(s, key)} :
                   s \in Range(sess)}
      [] pl = "prompt_phrase" ->
            UNION {{s.messages[i].timestamp : i \in PromptsWith(s, key)} :
                   s \in Range(sess)}

\* The dicts after 0, 1, ..., Len(obs) passes, from the one after `done`
\* passes on.
RECURSIVE DictsFrom(_, _, _, _)
DictsFrom(pl, obs, done, counts) ==
    IF done = Len(obs) THEN <<counts>>
    ELSE <<counts>> \o DictsFrom(pl, obs, done + 1, Observe(pl, counts, obs[done + 1]))

Dicts(pl, obs) == DictsFrom(pl, obs, 0, <<>>)

\* C13: in every pipeline, after any number of counted observations,
\* first_seen is the minimum and last_seen the maximum of the timestamps of
\* the key's observations so far that are not absent, null or empty; both
\* are None until the first such timestamp.  The timestamps are the session's
\* started_at for tool sequences and the message timestamp for prompts (the
\* tool call's for file access: C9).
C13_SeenBounds ==
    Accumulating =>
       LET sess == FilteredSessions(store, config)
           obs == Observations(pipeline, sess)
           dicts == Dicts(pipeline, obs)
       IN  /\ acc = dicts[Len(obs) + 1]
           /\ \A n \in 0..Len(obs) :
                 LET counts == dicts[n + 1]
                 IN  \A i \in 1..Len(counts) :
                        BoundsOf(counts[i].pat,
                                 {obs[j].timestamp :
                                     j \in {k \in 1..n : obs[k].key = counts[i].seq}})
           /\ pipeline # "file_access" =>
                 \A i \in 1..Len(acc) :
                    BoundsOf(acc[i].pat, OfferedTo(pipeline, sess, acc[i].seq))

\* C13 witness: a pattern of three observations whose timestamps came as
\* absent, then 3 -- after the first observation both bounds were None -- and
\* whose bounds ended as 1 and 3.
C13_Witness ==
    /\ Returned("prompt_prefix")
    /\ LET obs == Observations(pipeline, FilteredSessions(store, config))
       IN  /\ Len(obs) >= 3
           /\ obs[1].timestamp = Absent
           /\ obs[2].timestamp = 3
           /\ obs[3].timestamp = 1
           /\ obs[1].key = obs[2].key /\ obs[2].key = obs[3].key
           /\ Dicts(pipeline, obs)[2][1].pat.first_seen = None
           /\ \E i \in 1..Len(acc) :
                 /\ acc[i].seq = obs[1].key
                 /\ acc[i].pat.first_seen = 1
                 /\ acc[i].pat.last_seen = 3

\* The positions among the first n observations that are of the key.
ObservedOf(obs, n, key) == Ascending({j \in 1..n : obs[j].key = key})

\* The raw strings a session offers as examples to a key of the prompt
\* pipelines: the contents of its user messages.
PromptTextsOf(s) ==
    {m.content.text : m \in {x \in Range(s.messages) : x.type = "user"}}

\* C14: during accumulation in each pipeline, after any number of counted
\* observations, the examples of a pattern are the raw strings of the first
\* min(3, occurrences) observations of its key in scan order: never more
\* than 3, and unchanged once 3 are held.  The raw strings are the joined
\* window for tool sequences and message contents for prompts (tool name and
\* path for file access: C9).
C14_ExamplesCapped ==
    Accumulating =>
       LET sess == FilteredSessions(store, config)
           obs == Observations(pipeline, sess)
           dicts == Dicts(pipeline, obs)
       IN  /\ acc = dicts[Len(obs) + 1]
           /\ \A n \in 0..Len(obs) :
                 \A i \in 1..Len(dicts[n + 1]) :
                    LET p == dicts[n + 1][i].pat
                        seen == ObservedOf(obs, n, dicts[n + 1][i].seq)
                    IN  /\ p.occurrences = Len(seen)
                        /\ Len(p.examples) <= 3
                        /\ p.examples = [h \in 1..Min2(3, Len(seen)) |-> obs[seen[h]].example]
                        /\ (n > 0 /\ i <= Len(dicts[n]) /\ Len(dicts[n][i].pat.examples) = 3)
                           => p.examples = dicts[n][i].pat.examples
           /\ pipeline = "tool_sequence" =>
                 \A i \in 1..Len(acc) :
                    \A h \in 1..Len(acc[i].pat.examples) :
                       acc[i].pat.examples[h] = JoinArrow(acc[i].seq)
           /\ pipeline \in {"prompt_prefix", "prompt_phrase"} =>
                 \A i \in 1..Len(acc) :
                    \A h \in 1..Len(acc[i].pat.examples) :
                       \E s \in Range(sess) :
                          /\ s.id \in acc[i].pat.sessions
                          /\ acc[i].pat.examples[h] \in PromptTextsOf(s)

\* C14 witness: a prefix observed four times holds the contents of the
\* first three messages; the fourth message's content differs from the
\* third's and was not stored.
C14_Witness ==
    /\ Returned("prompt_prefix")
    /\ LET obs == Observations(pipeline, FilteredSessions(store, config))
       IN  \E i \in 1..Len(acc) :
              LET seen == ObservedOf(obs, Len(obs), acc[i].seq)
              IN  /\ acc[i].pat.occurrences = 4
                  /\ Len(seen) = 4
                  /\ Len(acc[i].pat.examples) = 3
                  /\ obs[seen[4]].example # acc[i].pat.examples[3]
                  /\ obs[seen[1]].example # obs[seen[2]].example

\* ------------------------------------------------------------------ callers: properties

\* A detector exists and its caller is between or inside calls.
Calling == mode = "calls" /\ pc \in {"ready", "merge", "loop", "return"}

C16_State ==
    Calling =>
       \A pl \in Pipelines :
          result[pl] # NotCalled => result[pl] = Outcome(pl, store, config)

C16_Step ==
    (Calling /\ pc' \in {"ready", "merge", "loop", "return"}) =>
       /\ store' = store
       /\ config' = config
       /\ \A pl \in Pipelines : result[pl] # NotCalled => result'[pl] = result[pl]

\* C16: the four detection pipelines share no mutable state: over an unchanged
\* store, whatever calls of detect_tool_sequences, detect_prompt_prefixes,
\* detect_prompt_phrases and detect_file_access were made before, in whatever
\* order, repeated or made while detect_tool_sequences is running, every call
\* ends as the same call made alone on a new detector ends (the same list, or
\* the same exception); a later call leaves what an earlier call returned as it
\* was; and no call changes the detector's configuration or the session,
\* message and tool-call records.
C16_PipelinesIndependent == [](C16_State) /\ [][C16_Step]_vars

\* C16 witness: detect_tool_sequences has returned patterns once and is
\* running again, inside the merger's loop with a pattern emitted;
\* detect_prompt_prefixes was called meanwhile and returned patterns, and
\* detect_file_access has returned too.
C16_Witness ==
    /\ mode = "calls" /\ pc = "loop" /\ merged # <<>>
    /\ pipeline = "prompt_prefix"
    /\ result["tool_sequence"].exc = "none"
    /\ result["tool_sequence"].patterns # <<>>
    /\ result["prompt_prefix"].exc = "none"
    /\ result["prompt_prefix"].patterns # <<>>
    /\ result["file_access"] # NotCalled

\* detect_patterns has returned its report.
Reported == mode = "calls" /\ pc = "done" /\ exc = "none"

\* The positions in the store of the sessions that pass the configured
\* filters: the project, when one is configured, and the since floor, when
\* one is configured; a session without started_at is below every floor.
Analyzed ==
    {i \in 1..Len(store) :
        /\ config.project_filter # "" => store[i].project = config.project_filter
        /\ config.since > 0 =>
              /\ store[i].started_at # Absent
              /\ store[i].started_at >= config.since}

\* The four pattern types of a report and the detect methods behind them.
ReportTypes ==
    {<<"tool_sequences", "tool_sequence">>, <<"prompt_prefixes", "prompt_prefix">>,
     <<"prompt_phrases", "prompt_phrase">>, <<"file_access", "file_access">>}

\* C17: the report returned by detect_patterns is internally consistent: for
\* each of the four pattern types summary.patterns_found[type] equals the
\* length of patterns[type], which equals the number of patterns the
\* corresponding detect method returned; total_sessions_analyzed equals the
\* number of filtered sessions, and total_projects the number of distinct
\* project names among them; with an empty session set all four lists are
\* empty and all counts are 0.
C17_ReportConsistent ==
    Reported =>
       /\ \A t \in ReportTypes :
             /\ report.summary.patterns_found[t[1]] = Len(report.patterns[t[1]])
             /\ Len(report.patterns[t[1]]) = Len(Outcome(t[2], store, config).patterns)
             /\ Outcome(t[2], store, config).exc = "none"
       /\ report.summary.total_sessions_analyzed = Cardinality(Analyzed)
       /\ report.summary.total_projects = Cardinality({store[i].project : i \in Analyzed})
       /\ Analyzed = {} =>
             /\ \A t \in ReportTypes :
                   /\ report.patterns[t[1]] = <<>>
                   /\ report.summary.patterns_found[t[1]] = 0
             /\ report.summary.total_sessions_analyzed = 0
             /\ report.summary.total_projects = 0

\* C17 witness: a report over two sessions of one project, under a since
\* floor, with tool sequences and prompt prefixes found.
C17_Witness ==
    /\ Reported
    /\ config.since > 0
    /\ report.summary.total_sessions_analyzed = 2
    /\ report.summary.total_projects = 1
    /\ report.summary.patterns_found.tool_sequences > 0
    /\ report.summary.patterns_found.prompt_prefixes > 0

\* classify has re-parsed the report of detect_patterns.
Classified == mode = "calls" /\ pc = "classified"

\* The list holds the strings of the set, each once, in ascending order.
IsSortedListOf(list, S) ==
    /\ Range(list) = S
    /\ \A i \in 1..Len(list) : \A j \in (i + 1)..Len(list) : StrLess(list[i], list[j])

\* The patterns the records of the report were made from, in the records' order.
ReportedPatterns ==
    LET all == detect_all(store, config)
    IN  all.tool_sequences \o all.prompt_prefixes \o all.prompt_phrases \o all.file_access

\* C18: serialization round trip: for every RawPattern p that is serialized,
\* to_dict(p) has session_count = |p.sessions|, project_count = |p.projects|,
\* sessions and projects listed in ascending order without duplicates, and
\* at most 3 examples, the first three of p.examples (also for a merged
\* pattern holding more); the RawPattern rebuilt from that record has the
\* same pattern_key and occurrences, and as many sessions and projects as
\* session_count and project_count say.
C18_RoundTrip ==
    Classified =>
       LET ps == ReportedPatterns
           ds == RecordsOf(report)
       IN  /\ Len(ds) = Len(ps)
           /\ \A i \in 1..Len(ps) :
                 LET p == ps[i]
                     d == ds[i]
                     q == FromDict(d)
                 IN  /\ d.session_count = Cardinality(p.sessions)
                     /\ d.project_count = Cardinality(p.projects)
                     /\ IsSortedListOf(d.sessions, p.sessions)
                     /\ IsSortedListOf(d.projects, p.projects)
                     /\ Len(d.examples) <= 3
                     /\ Len(d.examples) = Min2(3, Len(p.examples))
                     /\ \A h \in 1..Len(d.examples) : d.examples[h] = p.examples[h]
                     /\ d.pattern_key = p.pattern_key /\ d.occurrences = p.occurrences
                     /\ q.pattern_key = p.pattern_key
                     /\ q.occurrences = p.occurrences
                     /\ Cardinality(q.sessions) = d.session_count
                     /\ Cardinality(q.projects) = d.project_count
                     /\ to_dict(q) = d
                     /\ \E k \in 1..Len(result) :
                           /\ result[k].seq = d.pattern_key
                           /\ \E j \in i..Len(ds) : result[k].pat = FromDict(ds[j])

\* C18 witness: a merged pattern of two sessions holding four examples was
\* serialized with three and re-parsed.
C18_Witness ==
    /\ Classified
    /\ \E i \in 1..Len(ReportedPatterns) :
          /\ Len(ReportedPatterns[i].examples) > 3
          /\ Cardinality(ReportedPatterns[i].sessions) = 2
          /\ Len(RecordsOf(report)[i].examples) = 3
          /\ RecordsOf(report)[i].session_count = 2

\* ------------------------------------------------------------------ session filter: properties

\* A detect method was called and has returned or raised.
DetectDone == mode = "detect" /\ pc = "done" /\ pipeline \in Pipelines

\* The sessions the configured filters let through, by id, and their projects.
AnalyzedIds == {store[i].id : i \in Analyzed}

AnalyzedProjects == {store[i].project : i \in Analyzed}

\* Every accumulated and every returned pattern stems from sessions that
\* pass the filters; under a project filter P its projects are exactly {P}.
FromAnalyzedOnly ==
    /\ \A i \in 1..Len(acc) :
          /\ acc[i].pat.sessions \subseteq AnalyzedIds
          /\ acc[i].pat.projects \subseteq AnalyzedProjects
    /\ \A i \in 1..Len(result) :
          /\ result[i].sessions \subseteq AnalyzedIds
          /\ result[i].sessions # {}
          /\ result[i].projects \subseteq AnalyzedProjects
          /\ config.project_filter # "" => result[i].projects = {config.project_filter}

\* C19 as claimed: with a project filter P every pipeline observes only
\* sessions of project P, so every returned pattern has P, and no other
\* project, in its projects; with a since floor T every observed session has
\* started_at >= T, and a session without started_at (the key missing, or
\* its value null) is excluded, the call going on with the other sessions;
\* with both configured a session must satisfy both.
C19_SessionsFiltered ==
    DetectDone =>
       /\ ~FilterRaises(store, config)
       /\ exc = "none" => FromAnalyzedOnly

\* C19, what the code does: every call that returns has observed only
\* sessions that pass the configured filters (project equal to P, started_at
\* a string >= T, a missing started_at counting as ''), and under a project
\* filter P every returned pattern has projects = {P}.
C19_FilteredWhenReturned == (DetectDone /\ exc = "none") => FromAnalyzedOnly

\* C19 witness: under a since floor a call returned patterns from a store
\* that holds a session without started_at and a session that passes.
C19_Witness ==
    /\ DetectDone /\ exc = "none"
    /\ config.since > 0
    /\ \E i \in 1..Len(store) : store[i].started_at = Absent
    /\ Analyzed # {}
    /\ result # <<>>

\* ------------------------------------------------------------------ normalizers: properties

\* A normalizer was called and has returned or raised.
Normalized == mode = "normalize" /\ pc = "done"

\* The input_json that reaches normalize_bash_command, if any does.
BashInput ==
    IF arg.fn = "normalize_bash_command" THEN arg.value ELSE InputJsonOf(arg.value)

ReachesBash ==
    \/ arg.fn = "normalize_bash_command"
    \/ arg.fn = "normalize_tool_name" /\ arg.value.tool_name = "Bash"

\* input_json parses to a JSON value that is no object, or to an object
\* whose command is a truthy value that is no string.
NoObjectOrNoString ==
    /\ ReachesBash
    /\ \/ BashInput.kind = "nonobject"
       \/ BashInput.kind = "object" /\ BashInput.command.kind = "nonstring"

\* C20 as claimed: normalize_bash_command, normalize_tool_name,
\* normalize_prompt and normalize_file_path never raise: for every input,
\* input_json that parses to a JSON value that is no object or whose command
\* is no string included, they return 'unknown' or a normalized or unchanged
\* value.
C20_NormalizersNeverRaise == Normalized => exc = "none"

\* C20, what the code does: on every other input the normalizers return:
\* 'unknown' for input_json that is no JSON and for a command that is
\* missing, falsy or blank; for a command with an unclosed quote the name
\* built from its blank-separated words; the tool name itself for a tool
\* other than Bash; 'Bash:' and the normalized command for Bash.
C20_NormalizersReturn ==
    (Normalized /\ ~NoObjectOrNoString) =>
       /\ exc = "none"
       /\ arg.fn = "normalize_bash_command" =>
             /\ (BashInput.kind = "invalid" \/ BashInput.command.kind \in {"absent", "falsy"})
                   => ret = "unknown"
             /\ (BashInput.kind = "object" /\ BashInput.command.kind = "str") =>
                   LET cmd == BashInput.command.text
                       w == Split(cmd)
                   IN  /\ w = <<>> => ret = "unknown"
                       /\ (w # <<>> /\ QuoteAtEnd(cmd, "") # "") =>
                             ret \in {w[1]} \cup {w[1] \o "-" \o w[k] : k \in {2} \cap 1..Len(w)}
                       /\ (w # <<>> /\ CharsOf(cmd) \cap Quotes = {}) =>
                             ret \in {w[1]} \cup {w[1] \o "-" \o w[k] : k \in {2} \cap 1..Len(w)}
       /\ arg.fn = "normalize_tool_name" =>
             IF arg.value.tool_name = "Bash"
             THEN ret = "Bash:" \o normalize_bash_command(BashInput)
             ELSE ret = arg.value.tool_name

\* C20 witness: a command with an unclosed quote was normalized from its
\* blank-separated words.
C20_Witness ==
    /\ Normalized /\ exc = "none"
    /\ arg.fn = "normalize_bash_command"
    /\ arg.value.kind = "object" /\ arg.value.command.kind = "str"
    /\ ShlexRaises(arg.value.command.text)
    /\ ret = "git-\"commit"

\* input_json is no JSON, or an object without a command, or with a command
\* that is empty (or otherwise falsy) or made of blanks only.
NothingToRun(j) ==
    \/ j.kind = "invalid"
    \/ j.kind = "object" /\ j.command.kind \in {"absent", "falsy"}
    \/ j.kind = "object" /\ j.command.kind = "str" /\ CharsOf(j.command.text) \subseteq {" "}

\* C21: normalize_bash_command returns 'unknown' whenever the input is not
\* valid JSON, the parsed object has no command field, or the command is empty
\* or consists only of whitespace; normalize_tool_name of a Bash call with such
\* input, or with no input_json key, is 'Bash:unknown'; for every tool other
\* than Bash normalize_tool_name returns the raw tool name unchanged.
C21_UnknownSentinel ==
    Normalized =>
       /\ (arg.fn = "normalize_bash_command" /\ NothingToRun(arg.value))
             => exc = "none" /\ ret = "unknown"
       /\ (/\ arg.fn = "normalize_tool_name"
           /\ arg.value.tool_name = "Bash"
           /\ arg.value.input_json.kind = "absent" \/ NothingToRun(arg.value.input_json))
             => exc = "none" /\ ret = "Bash:unknown"
       /\ (arg.fn = "normalize_tool_name" /\ arg.value.tool_name # "Bash")
             => exc = "none" /\ ret = arg.value.tool_name

\* C21 witness: a Bash call whose command is blanks only was named
\* 'Bash:unknown'.
C21_Witness ==
    /\ Normalized
    /\ arg.fn = "normalize_tool_name"
    /\ arg.value.tool_name = "Bash"
    /\ arg.value.input_json.kind = "object"
    /\ arg.value.input_json.command.kind = "str"
    /\ arg.value.input_json.command.text = "  "
    /\ ret = "Bash:unknown"

\* The tokens of a command: its blank-separated words when it holds no quote,
\* and what the shell-like split makes of it otherwise.
TokensOf(cmd) == IF CharsOf(cmd) \cap Quotes = {} THEN Split(cmd) ELSE Parts(cmd)

\* The token is a flag or a path.
FlagOrPath(token) == Len(token) > 0 /\ SubSeq(token, 1, 1) \in {"-", "/"}

\* C22: for every command with at least one token, normalize_bash_command
\* returns '{first}-{second}' iff the first token is in the subcommand-tool
\* allow-list, a second token exists, and the second token starts with
\* neither '-' nor '/'; in every other case (unknown tool, single token,
\* second token a flag or a path) it returns the first token alone.
C22_SubcommandDepth ==
    (/\ Normalized
     /\ arg.fn = "normalize_bash_command"
     /\ arg.value.kind = "object" /\ arg.value.command.kind = "str"
     /\ TokensOf(arg.value.command.text) # <<>>)
    => LET w == TokensOf(arg.value.command.text)
           depth2 == /\ w[1] \in SUBCOMMAND_TOOLS
                     /\ Len(w) >= 2
                     /\ ~FlagOrPath(w[2])
       IN  /\ exc = "none"
           /\ depth2 => ret = w[1] \o "-" \o w[2]
           /\ ~depth2 => ret = w[1]

\* C22 witness: 'git /tmp' was normalized to 'git', its second token being a
\* path.
C22_Witness ==
    /\ Normalized
    /\ arg.fn = "normalize_bash_command"
    /\ arg.value.kind = "object" /\ arg.value.command.kind = "str"
    /\ arg.value.command.text = "git /tmp"
    /\ ret = "git"

\* The four home shapes: the prefix and the separator that ends the name.
HomeShapes ==
    {<<"/Users/", "/">>, <<"/home/", "/">>, <<"/mnt/c/Users/", "/">>,
     <<"C:\\Users\\", "\\">>}

\* What is left of the path behind a home of the shape: the path is the
\* prefix, a name of n >= 1 characters without the separator, the separator,
\* and the rest.
RestsBehind(path, shape) ==
    {SubSeq(path, Len(shape[1]) + n + 2, Len(path)) :
        n \in {m \in 1..Len(path) :
                 /\ Len(path) >= Len(shape[1]) + m + 1
                 /\ SubSeq(path, 1, Len(shape[1])) = shape[1]
                 /\ shape[2] \notin CharsOf(SubSeq(path, Len(shape[1]) + 1, Len(shape[1]) + m))
                 /\ SubSeq(path, Len(shape[1]) + m + 1, Len(shape[1]) + m + 1) = shape[2]}}

\* The shapes the start of the path has.
ShapesOf(path) == {shape \in HomeShapes : RestsBehind(path, shape) # {}}

\* The values of the path after 0, 1, 2, 3 and 4 of the substitutions.
Substituted(path) ==
    LET r1 == SubHome(path, "/Users/", "/")
        r2 == SubHome(r1, "/home/", "/")
        r3 == SubHome(r2, "/mnt/c/Users/", "/")
        r4 == SubHome(r3, "C:\\Users\\", "\\")
    IN  <<path, r1, r2, r3, r4>>

\* C23: normalize_file_path replaces exactly one recognized home prefix
\* (/Users/<u>/, /home/<u>/, /mnt/c/Users/<u>/, C:\Users\<u>\) at the start of
\* the path by '~/' and leaves the rest of the path untouched; of the four
\* substitutions applied in sequence at most one takes effect; a path of no
\* shape is returned unchanged; and normalizing the result changes nothing.
C23_HomePrefix ==
    (Normalized /\ arg.fn = "normalize_file_path") =>
       LET path == arg.value
           steps == Substituted(path)
       IN  /\ exc = "none"
           /\ Cardinality(ShapesOf(path)) <= 1
           /\ ShapesOf(path) = {} => ret = path
           /\ \A shape \in ShapesOf(path) :
                 /\ Cardinality(RestsBehind(path, shape)) = 1
                 /\ \A rest \in RestsBehind(path, shape) : ret = "~/" \o rest
           /\ Cardinality({i \in 1..4 : steps[i + 1] # steps[i]}) <= 1
           /\ ret = steps[5]
           /\ normalize_file_path(ret) = ret
           /\ ret \in FilePaths

\* C23 witness: a path with a home inside the home lost the first one only,
\* and the result, handed in again, came back as it was.
C23_Witness ==
    /\ Normalized
    /\ arg.fn = "normalize_file_path"
    /\ arg.value = "~/home/dev/file.py"
    /\ ret = "~/home/dev/file.py"
    /\ normalize_file_path("/home/john/home/dev/file.py") = arg.value

\* ------------------------------------------------------------------ merge: further properties

\* A call of merge_overlapping_sequences by a caller of its own is running
\* or has returned.
InMerge == mode = "merge" /\ pc \in {"loop", "done"}

\* C24: when several overlap lengths k in 1..|S|-1 satisfy suffix_k(S) =
\* prefix_k(T) for the chosen partner T, the fusion uses the smallest such k:
\* the fused tuple is S followed by T without its first k_min tokens.
C24_ShortestOverlap ==
    InMerge =>
       \A j \in Fusions :
          LET S == given[origin[j][1]].seq
              T == given[origin[j][2]].seq
          IN  /\ OverlapLens(S, T) # {}
              /\ merged[j].pattern_key = JoinArrow(Fusion(S, T, LeastOf(OverlapLens(S, T))))

\* C24 witness: (B, A, A) and (A, A, B) overlap by one and by two tokens and
\* were fused to the five tokens B, A, A, A, B.
C24_Witness ==
    /\ mode = "merge" /\ pc = "done"
    /\ \E j \in Fusions :
          /\ given[origin[j][1]].seq = <<"B", "A", "A">>
          /\ given[origin[j][2]].seq = <<"A", "A", "B">>
          /\ OverlapLens(<<"B", "A", "A">>, <<"A", "A", "B">>) = {1, 2}
          /\ merged[j].pattern_key = JoinArrow(<<"B", "A", "A", "A", "B">>)

\* The place of input i in the sorted order.
PlaceOf(i) == CHOOSE p \in 1..Len(sorted_seqs) : sorted_seqs[p] = i

\* The inputs consumed before output j was appended.
UsedBefore(j) == UNION {Range(origin[m]) : m \in 1..(j - 1)}

\* The inputs that could be fused to S when output j was made.
CandidatesAt(j, S) ==
    {t \in 1..Len(given) :
        /\ t # S
        /\ t \notin UsedBefore(j)
        /\ OverlapLens(given[S].seq, given[t].seq) # {}
        /\ Similar(Occ(S), Occ(t), ratio)}

\* C25: sequences are processed in descending order of occurrences, ties in
\* the input mapping's iteration order; the partner chosen for S is the first
\* not-yet-consumed sequence in that same order that overlaps S and passes
\* the ratio test, whatever a later candidate's overlap or count.
C25_FirstAcceptablePartner ==
    InMerge =>
       /\ Len(sorted_seqs) = Len(given)
       /\ \A p, q \in 1..Len(sorted_seqs) :
             p < q => \/ Occ(sorted_seqs[p]) > Occ(sorted_seqs[q])
                      \/ /\ Occ(sorted_seqs[p]) = Occ(sorted_seqs[q])
                         /\ sorted_seqs[p] < sorted_seqs[q]
       /\ \A j, m \in 1..Len(origin) :
             j < m => PlaceOf(origin[j][1]) < PlaceOf(origin[m][1])
       /\ \A j \in 1..Len(origin) :
             LET S == origin[j][1]
             IN  IF IsFused(j)
                 THEN /\ origin[j][2] \in CandidatesAt(j, S)
                      /\ \A t \in CandidatesAt(j, S) : PlaceOf(origin[j][2]) <= PlaceOf(t)
                 ELSE CandidatesAt(j, S) = {}

\* C25 witness: S was fused with a candidate that overlaps it by one token
\* only, although a later candidate overlaps it by two.
C25_Witness ==
    /\ mode = "merge" /\ pc = "done"
    /\ \E j \in Fusions :
          LET S == origin[j][1]
              T == origin[j][2]
          IN  /\ OverlapLens(given[S].seq, given[T].seq) = {1}
              /\ \E t \in CandidatesAt(j, S) :
                    /\ PlaceOf(t) > PlaceOf(T)
                    /\ 2 \in OverlapLens(given[S].seq, given[t].seq)

\* The token tuple a pattern_key was joined from: of the blank-separated
\* words of the key every second one is an arrow.
TokensOfKey(key) ==
    LET words == Split(key)
    IN  [m \in 1..((Len(words) + 1) \div 2) |-> words[2 * m - 1]]

IsPrefixOf(w, t) == Len(w) <= Len(t) /\ SubSeq(t, 1, Len(w)) = w

IsSuffixOf(w, t) == Len(w) <= Len(t) /\ SubSeq(t, Len(t) - Len(w) + 1, Len(t)) = w

Contiguous(w, t) ==
    \E i \in 0..(Len(t) - Len(w)) : SubSeq(t, i + 1, i + Len(w)) = w

\* A call of merge_overlapping_sequences has returned, to a caller of its own
\* or to detect_tool_sequences.
MergeReturned ==
    \/ mode = "merge" /\ pc = "done"
    \/ mode = "detect" /\ pc = "return"

\* Every input is a prefix or a suffix of exactly one output's token tuple;
\* an unfused output has n tokens and a fused one n+1 to 2n-1.
NoWindowLost ==
    LET out == [j \in 1..Len(merged) |-> TokensOfKey(merged[j].pattern_key)]
    IN  /\ \A i \in 1..Len(given) :
              Cardinality({j \in 1..Len(merged) :
                              \/ IsPrefixOf(given[i].seq, out[j])
                              \/ IsSuffixOf(given[i].seq, out[j])}) = 1
        /\ \A j \in 1..Len(merged) :
              IF IsFused(j)
              THEN Len(out[j]) \in (NGram + 1)..(2 * NGram - 1)
              ELSE Len(out[j]) = NGram

\* C26: no surviving window is lost by merging.  For inputs all of length n,
\* every input of merge_overlapping_sequences is a prefix or a suffix of the
\* token tuple of exactly one output, unfused outputs have n tokens and fused
\* ones between n+1 and 2n-1; and every window that meets the thresholds is
\* found contiguously in a key returned by detect_tool_sequences.
C26_NoWindowLost ==
    /\ MergeReturned => NoWindowLost
    /\ Returned("tool_sequence") =>
          \A i \in 1..Len(acc) :
             Retained(acc[i]) =>
                \E j \in 1..Len(result) :
                   Contiguous(acc[i].seq, TokensOfKey(result[j].pattern_key))

\* C26 witness: with min_occurrences = 2 and min_sessions = 2 the window
\* Bash:git-status, Bash:git-diff, Bash:git-add of two sessions is returned
\* as the end of a fused key of four tokens.
C26_Witness ==
    /\ Returned("tool_sequence")
    /\ config.min_occurrences = 2 /\ config.min_sessions = 2
    /\ \E i \in 1..Len(acc) :
          /\ acc[i].seq = <<"Bash:git-status", "Bash:git-diff", "Bash:git-add">>
          /\ Retained(acc[i])
    /\ \E j \in 1..Len(result) :
          /\ IsFused(j)
          /\ Len(TokensOfKey(result[j].pattern_key)) = 4
          /\ IsSuffixOf(<<"Bash:git-status", "Bash:git-diff", "Bash:git-add">>,
                        TokensOfKey(result[j].pattern_key))

\* C27: when merge_overlapping_sequences processes a sequence S, every
\* not-yet-consumed other sequence T comes after S in the sorted order and has
\* occ(T) <= occ(S); so in every fused pattern the left component has the
\* higher or equal count, the fused occurrences is the right component's
\* count, and the suffix of the earlier-sorted sequence is the prefix of the
\* later-sorted one.
C27_LeftIsMoreFrequent ==
    /\ Processing =>
          \A t \in 1..Len(given) :
             (t # Current /\ given[t].seq \notin used)
                => /\ PlaceOf(t) > idx
                   /\ Occ(t) <= Occ(Current)
    /\ InMerge =>
          \A j \in Fusions :
             LET S == origin[j][1]
                 T == origin[j][2]
             IN  /\ Occ(S) >= Occ(T)
                 /\ merged[j].occurrences = Occ(T)
                 /\ PlaceOf(S) < PlaceOf(T)
                 /\ OverlapLens(given[S].seq, given[T].seq) # {}

\* C27 witness: a fusion whose left component was given after the right one
\* and has the higher count; the right component's suffix is also a prefix of
\* the left one.
C27_Witness ==
    /\ mode = "merge" /\ pc = "done"
    /\ \E j \in Fusions :
          LET S == origin[j][1]
              T == origin[j][2]
          IN  /\ S > T
              /\ Occ(S) > Occ(T)
              /\ merged[j].occurrences = Occ(T)
              /\ OverlapLens(given[T].seq, given[S].seq) # {}

\* ------------------------------------------------------------------ PatternDetector: further properties

\* C28: merging preserves the thresholds: every pattern returned by
\* detect_tool_sequences, fused or not, has occurrences >= min_occurrences
\* and |sessions| >= min_sessions.
C28_MergedMeetThresholds ==
    Returned("tool_sequence") =>
       \A j \in 1..Len(result) :
          /\ result[j].occurrences >= config.min_occurrences
          /\ Cardinality(result[j].sessions) >= config.min_sessions

\* C28 witness: under thresholds of 2 and 2 a fused pattern is returned whose
\* occurrences and sessions are exactly 2.
C28_Witness ==
    /\ Returned("tool_sequence")
    /\ config.min_occurrences = 2 /\ config.min_sessions = 2
    /\ \E j \in 1..Len(result) :
          /\ IsFused(j)
          /\ result[j].occurrences = 2
          /\ Cardinality(result[j].sessions) = 2

\* The pattern counts something: occurrences and both sets are not empty.
Counts(p) == p.occurrences >= 1 /\ p.sessions # {} /\ p.projects # {}

\* 1 <= |projects| <= |sessions| <= occurrences
CountsOrdered(p) ==
    /\ 1 <= Cardinality(p.projects)
    /\ Cardinality(p.projects) <= Cardinality(p.sessions)
    /\ Cardinality(p.sessions) <= p.occurrences

\* C29: session ids being unique with one project each, after any number of
\* counted observations and for any thresholds, zero included, every
\* accumulated pattern of each of the four pipelines has
\* 1 <= |projects| <= |sessions| <= occurrences; no pattern with occurrences
\* 0 or without a session is accumulated, handed to the merger or returned,
\* so that the larger of two counts, by which the merger divides, is never 0.
C29_CountsOrdered ==
    Accumulating =>
       LET obs == Observations(pipeline, FilteredSessions(store, config))
           dicts == Dicts(pipeline, obs)
       IN  /\ \A n \in 0..Len(obs) :
                 \A i \in 1..Len(dicts[n + 1]) : CountsOrdered(dicts[n + 1][i].pat)
           /\ \A i \in 1..Len(acc) : CountsOrdered(acc[i].pat)
           /\ \A i \in 1..Len(result) : Counts(result[i])
           /\ (pipeline = "tool_sequence" /\ pc \in {"merge", "loop", "return", "done"}) =>
                 /\ \A i \in 1..Len(sequences) : CountsOrdered(sequences[i].pat)
                 /\ \A i, j \in 1..Len(sequences) :
                       Max2(sequences[i].pat.occurrences, sequences[j].pat.occurrences) > 0
                 /\ \A i \in 1..Len(merged) : Counts(merged[i])

\* C29 witness: with thresholds of zero a window of two occurrences in one
\* session and a window of one occurrence in another session of the same
\* project were handed to the merger, and their fusion was returned.
C29_Witness ==
    /\ Returned("tool_sequence")
    /\ config.min_occurrences = 0 /\ config.min_sessions = 0
    /\ \E j \in 1..Len(result) :
          /\ IsFused(j)
          /\ given[origin[j][1]].pat.occurrences = 2
          /\ Cardinality(given[origin[j][1]].pat.sessions) = 1
          /\ given[origin[j][2]].pat.occurrences = 1
          /\ Cardinality(result[j].projects) = 1
          /\ Cardinality(result[j].sessions) = 2
          /\ result[j].occurrences = 1

\* C30: within the result of one detection method the patterns are pairwise
\* distinct by key: no two patterns returned by detect_prompt_prefixes,
\* detect_prompt_phrases or detect_file_access share a pattern_key, and no two
\* patterns returned by detect_tool_sequences, merged or not, have the same
\* token tuple.
C30_KeysDistinct ==
    /\ (\E pl \in Pipelines \ {"tool_sequence"} : Returned(pl)) =>
          \A i, j \in 1..Len(result) :
             i # j => result[i].pattern_key # result[j].pattern_key
    /\ MergeReturned =>
          \A i, j \in 1..Len(merged) :
             i # j => TokensOfKey(merged[i].pattern_key) # TokensOfKey(merged[j].pattern_key)
    /\ Returned("tool_sequence") =>
          \A i, j \in 1..Len(result) :
             i # j => TokensOfKey(result[i].pattern_key) # TokensOfKey(result[j].pattern_key)

\* C30 witness: detect_file_access returned two patterns, one of them for a
\* path that was counted more than once.
C30_Witness ==
    /\ Returned("file_access")
    /\ Len(result) >= 2
    /\ \E j \in 1..Len(result) : result[j].occurrences >= 2

====
